---- MODULE Spec2Model ----
(***************************************************************************)
(* Verification model of the location-enrichment scripts:                  *)
(*   - normalize_location_text, the geocode cache, the two geocode         *)
(*     providers and postprocess_file of geocode_postprocess.py            *)
(*     (specification Spec);                                               *)
(*   - the resilient GET of huggingface_retrieval_sourcer_excel.py and of  *)
(*     lisp.py (specification SpecGet).                                    *)
(* A text the program cuts or compares by character is a sequence of       *)
(* characters; a text it only copies is a TLA+ string.  Durations are in   *)
(* tenths of a second.                                                     *)
(***************************************************************************)
EXTENDS Integers, Sequences, FiniteSets, TLC

VARIABLES
    \* ---- postprocess_file (one process after another) ----
    disk,                 \* GEO_CACHE_FILE
    rows,                 \* the owner_location column of the input file
    pc,                   \* "idle" | "loop" | "done" | "crashed" | "interrupted"
    runs,                 \* number of processes started so far
    GEO_PROVIDER,         \* the environment of the running process
    GOOGLE_MAPS_API_KEY,
    GEO_CACHE,            \* _GEO_CACHE
    cleans,               \* per row: (owner_location_clean, owner_location_clean_hint)
    uniques,              \* the sorted unique cleaned values
    idx,                  \* position of the loop `for loc in uniques`
    n,                    \* the local n
    geo_map,              \* the local geo_map
    out_rows,             \* per row: the nine geocode columns after the broadcast
    written,              \* what write_any wrote: "none" | "xlsx" | "csv"
    ncalls,               \* calls of geocode_and_normalize by this process
    netcount,             \* per cache key: requests sent to a geocoding service, ever
    run_net,              \* per cache key: requests sent by this process
    last_call,            \* the last call of geocode_and_normalize
    network,              \* "up" | "down": down, every request to a service fails
    run_start,            \* _GEO_CACHE as this process loaded it
    prev_run,             \* the last process without network that got to its broadcast
    \* ---- resilient GET (one call of get(url)) ----
    fvariant,   \* which get() is running: "hf" or "github"
    fpc,        \* "idle" | "try" (inside the for loop) | "returned" | "raised"
    attempt,    \* the loop variable of `for attempt in range(1, max_attempts + 1)`
    nreq,       \* number of SESSION.get requests issued by this call
    resp,       \* outcome of the last SESSION.get (a response or an exception)
    last_exc,   \* the local last_exc
    slept,      \* the last time.sleep of this call (NoSleep before the first)
    nsleeps,    \* number of time.sleep calls of this call
    jitter,     \* the random.uniform part of the last backoff sleep
    raised,     \* the exception get() ended with, NoExc when none
    \* ---- hf_fetch_author ----
    AUTHOR_CACHE,       \* _AUTHOR_CACHE
    AUTHOR_TYPE_CACHE,  \* _AUTHOR_TYPE_CACHE
    author_call,        \* the last call of hf_fetch_author
    \* ---- normalize_location_text applied to a text, then to its own result ----
    norm_pc,            \* "idle" | "raw" | "once" | "twice"
    norm_raw,           \* the argument
    norm_once,          \* normalize_location_text(norm_raw)
    norm_twice,         \* normalize_location_text(norm_once.clean)
    \* ---- the requests of geocode_nominatim in time ----
    lpc,                \* "idle" | "call" (inside geocode(raw, addressdetails=True))
    clock,              \* the time
    limiter_last,       \* _last_call of the RateLimiter of the running call
    tries,              \* retries the RateLimiter of the running call has used
    last_sent,          \* when the last request went to the service
    gap                 \* the time between the last two requests

pvars == <<disk, rows, pc, runs, GEO_PROVIDER, GOOGLE_MAPS_API_KEY, GEO_CACHE, cleans,
           uniques, idx, n, geo_map, out_rows, written, ncalls, netcount, run_net,
           last_call, network, run_start, prev_run>>

fvars == <<fvariant, fpc, attempt, nreq, resp, last_exc, slept, nsleeps, jitter, raised>>

avars == <<AUTHOR_CACHE, AUTHOR_TYPE_CACHE, author_call>>

nvars == <<norm_pc, norm_raw, norm_once, norm_twice>>

lvars == <<lpc, clock, limiter_last, tries, last_sent, gap>>

vars == <<pvars, fvars, avars, nvars, lvars>>

----------------------------------------------------------------------------
(* Text.  A Python str is a sequence of characters; a character is a       *)
(* one-character string, or a name for a character outside ASCII:          *)
(* "ZWSP" "ZWNJ" "ZWJ" "BOM" are U+200B U+200C U+200D U+FEFF, and "I^" "i^"  *)
(* "o^" are the circumflexed letters of the alias table.                   *)

UpperChars == <<"A", "B", "C", "D", "E", "F", "G", "H", "I", "J", "K", "L", "M",
                "N", "O", "P", "Q", "R", "S", "T", "U", "V", "W", "X", "Y", "Z", "I^">>

LowerChars == <<"a", "b", "c", "d", "e", "f", "g", "h", "i", "j", "k", "l", "m",
                "n", "o", "p", "q", "r", "s", "t", "u", "v", "w", "x", "y", "z", "i^">>

Digits == {"0", "1", "2", "3", "4", "5", "6", "7", "8", "9"}

Range(f) == {f[i] : i \in DOMAIN f}

\* str.isspace / the regex class \s
Whitespace == {" ", "\t"}

\* the regex class \w
WordChars == Range(UpperChars) \cup Range(LowerChars) \cup Digits \cup {"_", "o^"}

\* the class [\u200b\u200c\u200d\ufeff]
ZeroWidth == {"ZWSP", "ZWNJ", "ZWJ", "BOM"}

LowerTable ==
    [c \in Range(UpperChars) |->
        LowerChars[CHOOSE i \in DOMAIN UpperChars : UpperChars[i] = c]]

\* str.lower(), one character
LowerCh(c) == IF c \in DOMAIN LowerTable THEN LowerTable[c] ELSE c

\* str.lower()
Lower(s) == [i \in 1..Len(s) |-> LowerCh(s[i])]

RECURSIVE LStrip(_, _)
LStrip(s, cs) ==
    IF s # <<>> /\ Head(s) \in cs THEN LStrip(Tail(s), cs) ELSE s

RECURSIVE RStrip(_, _)
RStrip(s, cs) ==
    IF s # <<>> /\ s[Len(s)] \in cs THEN RStrip(SubSeq(s, 1, Len(s) - 1), cs) ELSE s

\* str.strip(chars)
StripChars(s, cs) == RStrip(LStrip(s, cs), cs)

\* str.strip()
Strip(s) == StripChars(s, Whitespace)

\* the characters of s from position i on match the lowercase literal lit,
\* ignoring case (re.IGNORECASE)
HasAt(s, i, lit) ==
    /\ i + Len(lit) - 1 <= Len(s)
    /\ \A k \in 1..Len(lit) : LowerCh(s[i + k - 1]) = lit[k]

IsWordAt(s, i) == i >= 1 /\ i <= Len(s) /\ s[i] \in WordChars

\* \b between the characters i-1 and i
Boundary(s, i) == IsWordAt(s, i - 1) # IsWordAt(s, i)

\* the first position from i on that holds no whitespace (Len(s) + 1 if none)
RECURSIVE SkipSpace(_, _)
SkipSpace(s, i) ==
    IF i <= Len(s) /\ s[i] \in Whitespace THEN SkipSpace(s, i + 1) ELSE i

----------------------------------------------------------------------------
(* The tables of geocode_postprocess.py and lisp.py *)

\* _BAD_LOCATIONS of lisp.py
GH_BAD_LOCATIONS ==
    {<<>>,
     <<"r", "e", "m", "o", "t", "e">>,
     <<"w", "o", "r", "l", "d", "w", "i", "d", "e">>,
     <<"e", "a", "r", "t", "h">>,
     <<"s", "o", "m", "e", "w", "h", "e", "r", "e">>,
     <<"i", "n", "t", "e", "r", "n", "e", "t">>,
     <<"e", "v", "e", "r", "y", "w", "h", "e", "r", "e">>,
     <<"g", "l", "o", "b", "a", "l">>,
     <<"o", "n", "l", "i", "n", "e">>,
     <<"a", "n", "y", "w", "h", "e", "r", "e">>,
     <<"p", "l", "a", "n", "e", "t", " ", "e", "a", "r", "t", "h">>,
     <<"t", "h", "e", " ", "i", "n", "t", "e", "r", "n", "e", "t">>,
     <<"g", "i", "t", "h", "u", "b">>,
     <<"h", "o", "m", "e">>}

\* a sentinel set that knows the empty text only
BAD_LOCATIONS_none == {<<>>}

\* _BAD_LOCATIONS of geocode_postprocess.py: the same and seven more
BAD_LOCATIONS ==
    GH_BAD_LOCATIONS \cup
    {<<"d", "i", "s", "t", "r", "i", "b", "u", "t", "e", "d">>,
     <<"i", "n", "t", "e", "r", "n", "a", "t", "i", "o", "n", "a", "l">>,
     <<"e", "u", "r", "o", "p", "e">>,
     <<"e", "u">>,
     <<"e", "u", "r", "o", "p", "e", "a", "n", " ", "u", "n", "i", "o", "n">>,
     <<"e", "m", "e", "a">>,
     <<"a", "p", "a", "c">>}

\* _LOCATION_MAP, as the set of its (key, value) pairs
LOCATION_MAP_ITEMS ==
    {<<<<"s", "f">>, <<"S", "a", "n", " ", "F", "r", "a", "n", "c", "i", "s", "c", "o", ",", " ", "C", "A", ",", " ", "U", "S", "A">>>>,
     <<<<"b", "a", "y", " ", "a", "r", "e", "a">>, <<"S", "a", "n", " ", "F", "r", "a", "n", "c", "i", "s", "c", "o", " ", "B", "a", "y", " ", "A", "r", "e", "a", ",", " ", "C", "A", ",", " ", "U", "S", "A">>>>,
     <<<<"n", "y">>, <<"N", "e", "w", " ", "Y", "o", "r", "k", ",", " ", "N", "Y", ",", " ", "U", "S", "A">>>>,
     <<<<"n", "y", "c">>, <<"N", "e", "w", " ", "Y", "o", "r", "k", ",", " ", "N", "Y", ",", " ", "U", "S", "A">>>>,
     <<<<"l", "a">>, <<"L", "o", "s", " ", "A", "n", "g", "e", "l", "e", "s", ",", " ", "C", "A", ",", " ", "U", "S", "A">>>>,
     <<<<"u", "k">>, <<"U", "n", "i", "t", "e", "d", " ", "K", "i", "n", "g", "d", "o", "m">>>>,
     <<<<"u", ".", "k", ".">>, <<"U", "n", "i", "t", "e", "d", " ", "K", "i", "n", "g", "d", "o", "m">>>>,
     <<<<"e", "n", "g", "l", "a", "n", "d">>, <<"E", "n", "g", "l", "a", "n", "d", ",", " ", "U", "n", "i", "t", "e", "d", " ", "K", "i", "n", "g", "d", "o", "m">>>>,
     <<<<"s", "c", "o", "t", "l", "a", "n", "d">>, <<"S", "c", "o", "t", "l", "a", "n", "d", ",", " ", "U", "n", "i", "t", "e", "d", " ", "K", "i", "n", "g", "d", "o", "m">>>>,
     <<<<"w", "a", "l", "e", "s">>, <<"W", "a", "l", "e", "s", ",", " ", "U", "n", "i", "t", "e", "d", " ", "K", "i", "n", "g", "d", "o", "m">>>>,
     <<<<"p", "a", "r", "i", "s">>, <<"P", "a", "r", "i", "s", ",", " ", "F", "r", "a", "n", "c", "e">>>>,
     <<<<"i", "d", "f">>, <<"I^", "l", "e", "-", "d", "e", "-", "F", "r", "a", "n", "c", "e", ",", " ", "F", "r", "a", "n", "c", "e">>>>,
     <<<<"p", "a", "c", "a">>, <<"P", "r", "o", "v", "e", "n", "c", "e", "-", "A", "l", "p", "e", "s", "-", "C", "o^", "t", "e", " ", "d", "'", "A", "z", "u", "r", ",", " ", "F", "r", "a", "n", "c", "e">>>>,
     <<<<"7", "5">>, <<"P", "a", "r", "i", "s", ",", " ", "F", "r", "a", "n", "c", "e">>>>,
     <<<<"l", "y", "o", "n">>, <<"L", "y", "o", "n", ",", " ", "F", "r", "a", "n", "c", "e">>>>,
     <<<<"m", "a", "r", "s", "e", "i", "l", "l", "e">>, <<"M", "a", "r", "s", "e", "i", "l", "l", "e", ",", " ", "F", "r", "a", "n", "c", "e">>>>,
     <<<<"t", "o", "u", "l", "o", "u", "s", "e">>, <<"T", "o", "u", "l", "o", "u", "s", "e", ",", " ", "F", "r", "a", "n", "c", "e">>>>,
     <<<<"n", "a", "n", "t", "e", "s">>, <<"N", "a", "n", "t", "e", "s", ",", " ", "F", "r", "a", "n", "c", "e">>>>,
     <<<<"b", "o", "r", "d", "e", "a", "u", "x">>, <<"B", "o", "r", "d", "e", "a", "u", "x", ",", " ", "F", "r", "a", "n", "c", "e">>>>,
     <<<<"d", "e">>, <<"G", "e", "r", "m", "a", "n", "y">>>>,
     <<<<"g", "e", "r", "m", "a", "n", "y">>, <<"G", "e", "r", "m", "a", "n", "y">>>>,
     <<<<"b", "e", "r", "l", "i", "n">>, <<"B", "e", "r", "l", "i", "n", ",", " ", "G", "e", "r", "m", "a", "n", "y">>>>,
     <<<<"m", "u", "n", "i", "c", "h">>, <<"M", "u", "n", "i", "c", "h", ",", " ", "G", "e", "r", "m", "a", "n", "y">>>>,
     <<<<"h", "a", "m", "b", "u", "r", "g">>, <<"H", "a", "m", "b", "u", "r", "g", ",", " ", "G", "e", "r", "m", "a", "n", "y">>>>,
     <<<<"e", "s">>, <<"S", "p", "a", "i", "n">>>>,
     <<<<"s", "p", "a", "i", "n">>, <<"S", "p", "a", "i", "n">>>>,
     <<<<"m", "a", "d", "r", "i", "d">>, <<"M", "a", "d", "r", "i", "d", ",", " ", "S", "p", "a", "i", "n">>>>,
     <<<<"b", "a", "r", "c", "e", "l", "o", "n", "a">>, <<"B", "a", "r", "c", "e", "l", "o", "n", "a", ",", " ", "S", "p", "a", "i", "n">>>>,
     <<<<"v", "a", "l", "e", "n", "c", "i", "a">>, <<"V", "a", "l", "e", "n", "c", "i", "a", ",", " ", "S", "p", "a", "i", "n">>>>,
     <<<<"i", "t">>, <<"I", "t", "a", "l", "y">>>>,
     <<<<"i", "t", "a", "l", "y">>, <<"I", "t", "a", "l", "y">>>>,
     <<<<"r", "o", "m", "e">>, <<"R", "o", "m", "e", ",", " ", "I", "t", "a", "l", "y">>>>,
     <<<<"m", "i", "l", "a", "n", "o">>, <<"M", "i", "l", "a", "n", ",", " ", "I", "t", "a", "l", "y">>>>,
     <<<<"m", "i", "l", "a", "n">>, <<"M", "i", "l", "a", "n", ",", " ", "I", "t", "a", "l", "y">>>>,
     <<<<"n", "a", "p", "o", "l", "i">>, <<"N", "a", "p", "l", "e", "s", ",", " ", "I", "t", "a", "l", "y">>>>,
     <<<<"n", "l">>, <<"N", "e", "t", "h", "e", "r", "l", "a", "n", "d", "s">>>>,
     <<<<"n", "e", "t", "h", "e", "r", "l", "a", "n", "d", "s">>, <<"N", "e", "t", "h", "e", "r", "l", "a", "n", "d", "s">>>>,
     <<<<"h", "o", "l", "l", "a", "n", "d">>, <<"N", "e", "t", "h", "e", "r", "l", "a", "n", "d", "s">>>>,
     <<<<"a", "m", "s", "t", "e", "r", "d", "a", "m">>, <<"A", "m", "s", "t", "e", "r", "d", "a", "m", ",", " ", "N", "e", "t", "h", "e", "r", "l", "a", "n", "d", "s">>>>,
     <<<<"r", "o", "t", "t", "e", "r", "d", "a", "m">>, <<"R", "o", "t", "t", "e", "r", "d", "a", "m", ",", " ", "N", "e", "t", "h", "e", "r", "l", "a", "n", "d", "s">>>>,
     <<<<"b", "e">>, <<"B", "e", "l", "g", "i", "u", "m">>>>,
     <<<<"b", "e", "l", "g", "i", "u", "m">>, <<"B", "e", "l", "g", "i", "u", "m">>>>,
     <<<<"b", "r", "u", "s", "s", "e", "l", "s">>, <<"B", "r", "u", "s", "s", "e", "l", "s", ",", " ", "B", "e", "l", "g", "i", "u", "m">>>>,
     <<<<"b", "x", "l">>, <<"B", "r", "u", "s", "s", "e", "l", "s", ",", " ", "B", "e", "l", "g", "i", "u", "m">>>>,
     <<<<"p", "t">>, <<"P", "o", "r", "t", "u", "g", "a", "l">>>>,
     <<<<"p", "o", "r", "t", "u", "g", "a", "l">>, <<"P", "o", "r", "t", "u", "g", "a", "l">>>>,
     <<<<"l", "i", "s", "b", "o", "n">>, <<"L", "i", "s", "b", "o", "n", ",", " ", "P", "o", "r", "t", "u", "g", "a", "l">>>>,
     <<<<"p", "o", "r", "t", "o">>, <<"P", "o", "r", "t", "o", ",", " ", "P", "o", "r", "t", "u", "g", "a", "l">>>>,
     <<<<"i", "e">>, <<"I", "r", "e", "l", "a", "n", "d">>>>,
     <<<<"i", "r", "e", "l", "a", "n", "d">>, <<"I", "r", "e", "l", "a", "n", "d">>>>,
     <<<<"d", "u", "b", "l", "i", "n">>, <<"D", "u", "b", "l", "i", "n", ",", " ", "I", "r", "e", "l", "a", "n", "d">>>>,
     <<<<"a", "t">>, <<"A", "u", "s", "t", "r", "i", "a">>>>,
     <<<<"a", "u", "s", "t", "r", "i", "a">>, <<"A", "u", "s", "t", "r", "i", "a">>>>,
     <<<<"v", "i", "e", "n", "n", "a">>, <<"V", "i", "e", "n", "n", "a", ",", " ", "A", "u", "s", "t", "r", "i", "a">>>>,
     <<<<"p", "l">>, <<"P", "o", "l", "a", "n", "d">>>>,
     <<<<"p", "o", "l", "a", "n", "d">>, <<"P", "o", "l", "a", "n", "d">>>>,
     <<<<"w", "a", "r", "s", "a", "w">>, <<"W", "a", "r", "s", "a", "w", ",", " ", "P", "o", "l", "a", "n", "d">>>>,
     <<<<"k", "r", "a", "k", "o", "w">>, <<"K", "r", "a", "k", "o", "w", ",", " ", "P", "o", "l", "a", "n", "d">>>>,
     <<<<"c", "z">>, <<"C", "z", "e", "c", "h", " ", "R", "e", "p", "u", "b", "l", "i", "c">>>>,
     <<<<"c", "z", "e", "c", "h">>, <<"C", "z", "e", "c", "h", " ", "R", "e", "p", "u", "b", "l", "i", "c">>>>,
     <<<<"p", "r", "a", "g", "u", "e">>, <<"P", "r", "a", "g", "u", "e", ",", " ", "C", "z", "e", "c", "h", " ", "R", "e", "p", "u", "b", "l", "i", "c">>>>,
     <<<<"h", "u">>, <<"H", "u", "n", "g", "a", "r", "y">>>>,
     <<<<"h", "u", "n", "g", "a", "r", "y">>, <<"H", "u", "n", "g", "a", "r", "y">>>>,
     <<<<"b", "u", "d", "a", "p", "e", "s", "t">>, <<"B", "u", "d", "a", "p", "e", "s", "t", ",", " ", "H", "u", "n", "g", "a", "r", "y">>>>,
     <<<<"r", "o">>, <<"R", "o", "m", "a", "n", "i", "a">>>>,
     <<<<"r", "o", "m", "a", "n", "i", "a">>, <<"R", "o", "m", "a", "n", "i", "a">>>>,
     <<<<"b", "u", "c", "h", "a", "r", "e", "s", "t">>, <<"B", "u", "c", "h", "a", "r", "e", "s", "t", ",", " ", "R", "o", "m", "a", "n", "i", "a">>>>,
     <<<<"b", "g">>, <<"B", "u", "l", "g", "a", "r", "i", "a">>>>,
     <<<<"b", "u", "l", "g", "a", "r", "i", "a">>, <<"B", "u", "l", "g", "a", "r", "i", "a">>>>,
     <<<<"s", "o", "f", "i", "a">>, <<"S", "o", "f", "i", "a", ",", " ", "B", "u", "l", "g", "a", "r", "i", "a">>>>,
     <<<<"g", "r">>, <<"G", "r", "e", "e", "c", "e">>>>,
     <<<<"g", "r", "e", "e", "c", "e">>, <<"G", "r", "e", "e", "c", "e">>>>,
     <<<<"a", "t", "h", "e", "n", "s">>, <<"A", "t", "h", "e", "n", "s", ",", " ", "G", "r", "e", "e", "c", "e">>>>,
     <<<<"s", "e">>, <<"S", "w", "e", "d", "e", "n">>>>,
     <<<<"s", "w", "e", "d", "e", "n">>, <<"S", "w", "e", "d", "e", "n">>>>,
     <<<<"s", "t", "o", "c", "k", "h", "o", "l", "m">>, <<"S", "t", "o", "c", "k", "h", "o", "l", "m", ",", " ", "S", "w", "e", "d", "e", "n">>>>,
     <<<<"d", "k">>, <<"D", "e", "n", "m", "a", "r", "k">>>>,
     <<<<"d", "e", "n", "m", "a", "r", "k">>, <<"D", "e", "n", "m", "a", "r", "k">>>>,
     <<<<"c", "o", "p", "e", "n", "h", "a", "g", "e", "n">>, <<"C", "o", "p", "e", "n", "h", "a", "g", "e", "n", ",", " ", "D", "e", "n", "m", "a", "r", "k">>>>,
     <<<<"f", "i">>, <<"F", "i", "n", "l", "a", "n", "d">>>>,
     <<<<"f", "i", "n", "l", "a", "n", "d">>, <<"F", "i", "n", "l", "a", "n", "d">>>>,
     <<<<"h", "e", "l", "s", "i", "n", "k", "i">>, <<"H", "e", "l", "s", "i", "n", "k", "i", ",", " ", "F", "i", "n", "l", "a", "n", "d">>>>,
     <<<<"h", "r">>, <<"C", "r", "o", "a", "t", "i", "a">>>>,
     <<<<"c", "r", "o", "a", "t", "i", "a">>, <<"C", "r", "o", "a", "t", "i", "a">>>>,
     <<<<"z", "a", "g", "r", "e", "b">>, <<"Z", "a", "g", "r", "e", "b", ",", " ", "C", "r", "o", "a", "t", "i", "a">>>>,
     <<<<"s", "i">>, <<"S", "l", "o", "v", "e", "n", "i", "a">>>>,
     <<<<"s", "l", "o", "v", "e", "n", "i", "a">>, <<"S", "l", "o", "v", "e", "n", "i", "a">>>>,
     <<<<"l", "j", "u", "b", "l", "j", "a", "n", "a">>, <<"L", "j", "u", "b", "l", "j", "a", "n", "a", ",", " ", "S", "l", "o", "v", "e", "n", "i", "a">>>>,
     <<<<"s", "k">>, <<"S", "l", "o", "v", "a", "k", "i", "a">>>>,
     <<<<"s", "l", "o", "v", "a", "k", "i", "a">>, <<"S", "l", "o", "v", "a", "k", "i", "a">>>>,
     <<<<"b", "r", "a", "t", "i", "s", "l", "a", "v", "a">>, <<"B", "r", "a", "t", "i", "s", "l", "a", "v", "a", ",", " ", "S", "l", "o", "v", "a", "k", "i", "a">>>>,
     <<<<"l", "t">>, <<"L", "i", "t", "h", "u", "a", "n", "i", "a">>>>,
     <<<<"v", "i", "l", "n", "i", "u", "s">>, <<"V", "i", "l", "n", "i", "u", "s", ",", " ", "L", "i", "t", "h", "u", "a", "n", "i", "a">>>>,
     <<<<"l", "v">>, <<"L", "a", "t", "v", "i", "a">>>>,
     <<<<"r", "i", "g", "a">>, <<"R", "i", "g", "a", ",", " ", "L", "a", "t", "v", "i", "a">>>>,
     <<<<"e", "e">>, <<"E", "s", "t", "o", "n", "i", "a">>>>,
     <<<<"t", "a", "l", "l", "i", "n", "n">>, <<"T", "a", "l", "l", "i", "n", "n", ",", " ", "E", "s", "t", "o", "n", "i", "a">>>>,
     <<<<"c", "y">>, <<"C", "y", "p", "r", "u", "s">>>>,
     <<<<"c", "y", "p", "r", "u", "s">>, <<"C", "y", "p", "r", "u", "s">>>>,
     <<<<"m", "t">>, <<"M", "a", "l", "t", "a">>>>,
     <<<<"m", "a", "l", "t", "a">>, <<"M", "a", "l", "t", "a">>>>}

----------------------------------------------------------------------------
(* normalize_location_text *)

L_european == <<"e", "u", "r", "o", "p", "e", "a", "n">>
L_union == <<"u", "n", "i", "o", "n">>
L_eu == <<"e", "u">>
L_european_union == L_european \o <<" ">> \o L_union
L_remote == <<"r", "e", "m", "o", "t", "e">>
L_only == <<"o", "n", "l", "y">>
L_fully == <<"f", "u", "l", "l", "y">>

\* lit1, then whitespace (at least `least` characters of it), then lit2, matched
\* at position i: the position after the match, 0 when there is none
TwoWords(s, i, lit1, least, lit2) ==
    IF HasAt(s, i, lit1)
      THEN LET j == i + Len(lit1)
               k == SkipSpace(s, j)
           IN IF k - j >= least /\ HasAt(s, k, lit2) THEN k + Len(lit2) ELSE 0
      ELSE 0

OneWord(s, i, lit) == IF HasAt(s, i, lit) THEN i + Len(lit) ELSE 0

\* the first of the alternatives (positions after a match, 0 for none) that
\* matches and is followed by \b
RECURSIVE FirstBounded(_, _)
FirstBounded(s, alts) ==
    IF alts = <<>> THEN 0
    ELSE IF Head(alts) # 0 /\ Boundary(s, Head(alts)) THEN Head(alts)
    ELSE FirstBounded(s, Tail(alts))

\* \b(european\s+union|eu)\b at position i: the position after the match, or 0
MatchEU(s, i) ==
    IF ~Boundary(s, i) THEN 0
    ELSE FirstBounded(s, <<TwoWords(s, i, L_european, 1, L_union),
                           OneWord(s, i, L_eu)>>)

\* \b(remote\s*only|fully\s*remote|remote)\b at position i
MatchRemote(s, i) ==
    IF ~Boundary(s, i) THEN 0
    ELSE FirstBounded(s, <<TwoWords(s, i, L_remote, 0, L_only),
                           TwoWords(s, i, L_fully, 0, L_remote),
                           OneWord(s, i, L_remote)>>)

\* [\u200b\u200c\u200d\ufeff] at position i
MatchZeroWidth(s, i) == IF s[i] \in ZeroWidth THEN i + 1 ELSE 0

\* \s+ at position i
MatchSpaces(s, i) == IF s[i] \in Whitespace THEN SkipSpace(s, i) ELSE 0

\* ,\s*(european union|eu)\s*$ at position i
MatchEUSuffix(s, i) ==
    IF s[i] # "," THEN 0
    ELSE LET j == SkipSpace(s, i + 1)
             e1 == OneWord(s, j, L_european_union)
             e2 == OneWord(s, j, L_eu)
             AtEnd(e) == e # 0 /\ SkipSpace(s, e) = Len(s) + 1
         IN IF AtEnd(e1) \/ AtEnd(e2) THEN Len(s) + 1 ELSE 0

Match(p, s, i) ==
    CASE p = "eu" -> MatchEU(s, i)
      [] p = "remote" -> MatchRemote(s, i)
      [] p = "zero-width" -> MatchZeroWidth(s, i)
      [] p = "spaces" -> MatchSpaces(s, i)
      [] p = "eu-suffix" -> MatchEUSuffix(s, i)

\* pattern.sub(repl, s): the matches are found left to right from position i
\* and do not overlap
RECURSIVE Sub(_, _, _, _)
Sub(p, repl, s, i) ==
    IF i > Len(s) THEN <<>>
    ELSE LET e == Match(p, s, i)
         IN IF e # 0 THEN repl \o Sub(p, repl, s, e)
                     ELSE <<s[i]>> \o Sub(p, repl, s, i + 1)

\* the loop over _CLEAN_REPLACEMENTS
CleanReplacements(s) ==
    Sub("zero-width", <<>>, Sub("remote", L_remote, Sub("eu", <<>>, s, 1), 1), 1)

LOCATION_MAP_KEYS == {kv[1] : kv \in LOCATION_MAP_ITEMS}

\* an alias table whose entry for "uk" gives a text that is itself an alias
LOCATION_MAP_chained(k) ==
    IF k = <<"u", "k">> THEN <<"E", "n", "g", "l", "a", "n", "d">>
    ELSE (CHOOSE kv \in LOCATION_MAP_ITEMS : kv[1] = k)[2]

\* _LOCATION_MAP[k]
LOCATION_MAP(k) == (CHOOSE kv \in LOCATION_MAP_ITEMS : kv[1] = k)[2]

\* a normalizer that looks for sentinels only before the cleaning rules
normalize_location_text_no_recheck(raw) ==
    LET s0 == Strip(raw)
        s_low0 == Strip(Lower(s0))
        s1 == Strip(StripChars(Sub("spaces", <<" ">>, CleanReplacements(s0), 1),
                               {" ", ",", ";", "|", "-"}))
        s_low == Lower(s1)
    IN IF s0 = <<>> THEN [clean |-> <<>>, hint |-> "EMPTY"]
       ELSE IF s_low0 \in BAD_LOCATIONS THEN [clean |-> s_low0, hint |-> "SKIP"]
       ELSE IF s1 = <<>> THEN [clean |-> <<>>, hint |-> "EMPTY"]
       ELSE IF s_low \in LOCATION_MAP_KEYS THEN [clean |-> LOCATION_MAP(s_low), hint |-> "MAPPED"]
       ELSE [clean |-> Strip(Sub("eu-suffix", <<>>, s1, 1)), hint |-> "CLEANED"]

\* a normalizer without the test `if not s` after the cleaning
normalize_location_text_no_empty_check(raw) ==
    LET s0 == Strip(raw)
        s_low0 == Strip(Lower(s0))
        s1 == Strip(StripChars(Sub("spaces", <<" ">>, CleanReplacements(s0), 1),
                               {" ", ",", ";", "|", "-"}))
        s_low == Lower(s1)
    IN IF s0 = <<>> THEN [clean |-> <<>>, hint |-> "EMPTY"]
       ELSE IF s_low0 \in BAD_LOCATIONS THEN [clean |-> s_low0, hint |-> "SKIP"]
       ELSE IF s_low \in BAD_LOCATIONS THEN [clean |-> s_low, hint |-> "SKIP"]
       ELSE IF s_low \in LOCATION_MAP_KEYS THEN [clean |-> LOCATION_MAP(s_low), hint |-> "MAPPED"]
       ELSE [clean |-> Strip(Sub("eu-suffix", <<>>, s1, 1)), hint |-> "CLEANED"]

\* normalize_location_text(raw): (clean, status_hint)
normalize_location_text(raw) ==
    LET s0 == Strip(raw)
        s_low0 == Strip(Lower(s0))
        s1 == Strip(StripChars(Sub("spaces", <<" ">>, CleanReplacements(s0), 1),
                               {" ", ",", ";", "|", "-"}))
        s_low == Lower(s1)
    IN IF s0 = <<>> THEN [clean |-> <<>>, hint |-> "EMPTY"]
       ELSE IF s_low0 \in BAD_LOCATIONS THEN [clean |-> s_low0, hint |-> "SKIP"]
       ELSE IF s1 = <<>> THEN [clean |-> <<>>, hint |-> "EMPTY"]
       ELSE IF s_low \in BAD_LOCATIONS THEN [clean |-> s_low, hint |-> "SKIP"]
       ELSE IF s_low \in LOCATION_MAP_KEYS THEN [clean |-> LOCATION_MAP(s_low), hint |-> "MAPPED"]
       ELSE [clean |-> Strip(Sub("eu-suffix", <<>>, s1, 1)), hint |-> "CLEANED"]

----------------------------------------------------------------------------
(* Geocode results, the cache, the providers *)

\* str.upper() on the short texts the services send
Upper(s) ==
    CASE s = "ok" -> "OK"
      [] s = "zero_results" -> "ZERO_RESULTS"
      [] s = "fr" -> "FR"
      [] OTHER -> s

\* x or ""  for an optional text: None is the empty sequence
OrEmpty(x) == IF x = <<>> THEN "" ELSE x[1]

\* "" if x is None else str(x)
StrOrEmpty(x) == IF x = <<>> THEN "" ELSE ToString(x[1])

geo_empty(provider) ==
    [owner_location_norm |-> "",
     owner_city |-> "",
     owner_region |-> "",
     owner_country |-> "",
     owner_country_code |-> "",
     owner_lat |-> "",
     owner_lon |-> "",
     owner_geocode_provider |-> provider,
     owner_geocode_status |-> "EMPTY"]

\* a NO_MATCH template that carries coordinates
geo_no_match_at_origin(provider) ==
    [geo_empty(provider) EXCEPT !.owner_geocode_status = "NO_MATCH",
                                !.owner_lat = "0", !.owner_lon = "0"]

geo_no_match(provider) ==
    [geo_empty(provider) EXCEPT !.owner_geocode_status = "NO_MATCH"]

\* what the Google Geocoding API sends: results[i] of the JSON body
GPlaceParis ==
    [formatted_address |-> <<"Paris, France">>,
     location |-> <<[lat |-> <<48>>, lng |-> <<2>>]>>,
     address_components |->
        <<[long_name |-> <<"Paris">>, short_name |-> <<"Paris">>,
           types |-> <<"locality", "political">>],
          [long_name |-> <<"Ile-de-France">>, short_name |-> <<"IDF">>,
           types |-> <<"administrative_area_level_1", "political">>],
          [long_name |-> <<"France">>, short_name |-> <<"FR">>,
           types |-> <<"country", "political">>]>>]

\* a result with no geometry, no locality, and two components of one type
GPlaceTown ==
    [formatted_address |-> <<>>,
     location |-> <<>>,
     address_components |->
        <<[long_name |-> <<"Lyon">>, short_name |-> <<>>,
           types |-> <<"postal_town">>],
          [long_name |-> <<"Villeurbanne">>, short_name |-> <<>>,
           types |-> <<"postal_town", "administrative_area_level_3">>],
          [long_name |-> <<>>, short_name |-> <<"FR">>,
           types |-> <<"country">>]>>]

\* What requests.get(url, params=params, timeout=TIMEOUT) and r.json() can give:
\*   "exc"     requests.get raises (timeout, connection error)
\*   "empty"   r.content is empty
\*   "badjson" r.json() raises, or the body is JSON but no object
\*   "json"    the body is the object `data` (status None is <<>>)
GoogleOutcomes ==
    {[kind |-> k, data |-> [status |-> <<>>, results |-> <<>>]] :
        k \in {"exc", "empty", "badjson"}}
    \cup
    {[kind |-> "json", data |-> [status |-> st, results |-> <<>>]] :
        st \in {<<>>, <<"OK">>, <<"ZERO_RESULTS">>, <<"zero_results">>}}
    \cup
    {[kind |-> "json", data |-> [status |-> <<"OK">>, results |-> rs]] :
        rs \in {<<GPlaceParis>>, <<GPlaceTown, GPlaceParis>>}}

\* what geopy's geocode(raw, addressdetails=True) gives: a Location
NLocParis ==
    [address |-> <<"Paris, Ile-de-France, France">>,
     raw_address |-> [city |-> <<"Paris">>, town |-> <<>>, village |-> <<>>,
                      state |-> <<"Ile-de-France">>, region |-> <<>>,
                      country |-> <<"France">>, country_code |-> <<"fr">>],
     latitude |-> <<48>>, longitude |-> <<2>>]

NLocVillage ==
    [address |-> <<>>,
     raw_address |-> [city |-> <<>>, town |-> <<>>, village |-> <<"Lyons">>,
                      state |-> <<>>, region |-> <<"Normandie">>,
                      country |-> <<>>, country_code |-> <<>>],
     latitude |-> <<49>>, longitude |-> <<1>>]

\* The outcomes of the try block of geocode_nominatim:
\*   "import_error" geopy is not installed (no request is sent)
\*   "blocked"      geocode raises GeocoderInsufficientPrivileges
\*   "exc"          geocode raises another exception
\*   "none"         geocode returns None
\*   "found"        geocode returns the Location loc
NominatimOutcomes ==
    {[kind |-> k, loc |-> NLocParis] : k \in {"import_error", "blocked", "exc", "none"}}
    \cup
    {[kind |-> "found", loc |-> l] : l \in {NLocParis, NLocVillage}}

NoOutcome == [kind |-> "unused"]

\* f"{provider}:{key}"
cache_key(provider, key) == <<provider, key>>

\* first-match-wins map of the address components: comp_map.get(ty)
CompMapGet(comps, ty) ==
    LET hits == {i \in DOMAIN comps : ty \in Range(comps[i].types)}
    IN IF hits = {} THEN <<>>
       ELSE <<comps[CHOOSE i \in hits : \A j \in hits : i <= j]>>

\* _long(ty), _short(ty)
Long(comps, ty) ==
    LET c == CompMapGet(comps, ty) IN IF c = <<>> THEN "" ELSE OrEmpty(c[1].long_name)

Short(comps, ty) ==
    LET c == CompMapGet(comps, ty) IN IF c = <<>> THEN "" ELSE OrEmpty(c[1].short_name)

\* a or b, for texts
Or(a, b) == IF a # "" THEN a ELSE b

\* The try block of geocode_google for the outcome o of the request:
\*   [do |-> "return", out]  a return inside the try (the result is cached first)
\*   [do |-> "fall", out]    the try block ends normally
\*   [do |-> "throw"]        an exception is raised inside the try
GoogleTry(o) ==
    IF o.kind \in {"exc", "badjson"} THEN [do |-> "throw", out |-> geo_no_match("google")]
    ELSE
    LET data == IF o.kind = "empty" THEN [status |-> <<>>, results |-> <<>>] ELSE o.data
        status == Upper(OrEmpty(data.status))
        results == data.results
    IN IF status # "OK"
         THEN [do |-> "return",
               out |-> [geo_no_match("google") EXCEPT
                           !.owner_geocode_status = Or(status, "ERROR")]]
       ELSE IF results = <<>>
         THEN [do |-> "return", out |-> geo_no_match("google")]
       ELSE
         LET top == results[1]
             geom == IF top.location = <<>> THEN [lat |-> <<>>, lng |-> <<>>]
                                            ELSE top.location[1]
             comps == top.address_components
         IN [do |-> "fall",
             out |-> [owner_location_norm |-> OrEmpty(top.formatted_address),
                      owner_city |-> Or(Long(comps, "locality"),
                                        Or(Long(comps, "postal_town"),
                                           Long(comps, "administrative_area_level_3"))),
                      owner_region |-> Long(comps, "administrative_area_level_1"),
                      owner_country |-> Long(comps, "country"),
                      owner_country_code |-> Short(comps, "country"),
                      owner_lat |-> StrOrEmpty(geom.lat),
                      owner_lon |-> StrOrEmpty(geom.lng),
                      owner_geocode_provider |-> "google",
                      owner_geocode_status |-> "OK"]]

\* the try block of geocode_nominatim
NominatimTry(o) ==
    IF o.kind \in {"import_error", "exc"}
      THEN [do |-> "throw", out |-> geo_no_match("nominatim")]
    ELSE IF o.kind = "blocked"
      THEN [do |-> "return",
            out |-> [geo_no_match("nominatim") EXCEPT
                        !.owner_geocode_status = "OSM_403_BLOCKED"]]
    ELSE IF o.kind = "none"
      THEN [do |-> "return", out |-> geo_no_match("nominatim")]
    ELSE
      LET addr == o.loc.raw_address
      IN [do |-> "fall",
          out |-> [owner_location_norm |-> OrEmpty(o.loc.address),
                   owner_city |-> Or(OrEmpty(addr.city),
                                     Or(OrEmpty(addr.town), OrEmpty(addr.village))),
                   owner_region |-> Or(OrEmpty(addr.state), OrEmpty(addr.region)),
                   owner_country |-> OrEmpty(addr.country),
                   owner_country_code |-> Upper(OrEmpty(addr.country_code)),
                   owner_lat |-> StrOrEmpty(o.loc.latitude),
                   owner_lon |-> StrOrEmpty(o.loc.longitude),
                   owner_geocode_provider |-> "nominatim",
                   owner_geocode_status |-> "OK"]]

\* an except clause that lets the exception through
ExceptException_reraise(t, provider) ==
    IF t.do = "throw" THEN [raises |-> TRUE, out |-> t.out]
                      ELSE [raises |-> FALSE, out |-> t.out]

\* an except clause that leaves the status of the template
ExceptException_no_match(t, provider) ==
    IF t.do = "throw" THEN [raises |-> FALSE, out |-> geo_no_match(provider)]
                      ELSE [raises |-> FALSE, out |-> t.out]

\* `except Exception: out["owner_geocode_status"] = "ERROR"` around the try
\* block: the result the function goes on with, and whether anything escapes
ExceptException(t, provider) ==
    IF t.do = "throw"
      THEN [raises |-> FALSE,
            out |-> [geo_no_match(provider) EXCEPT !.owner_geocode_status = "ERROR"]]
      ELSE [raises |-> FALSE, out |-> t.out]

\* a cache write that stores nothing
CachePut_dropped(cache, k, out) == cache

\* a cache that keeps only its newest entry
CachePut_evicting(cache, k, out) == [x \in {k} |-> out]

\* _GEO_CACHE[cache_key] = out
CachePut(cache, k, out) ==
    [x \in DOMAIN cache \cup {k} |-> IF x = k THEN out ELSE cache[x]]

\* the sentinel set of a script, and the status its providers give an input
\* that is empty or a sentinel
BadLocations(script) == IF script = "lisp" THEN GH_BAD_LOCATIONS ELSE BAD_LOCATIONS

PreCheckStatus(script, raw) ==
    IF script = "lisp" THEN "SKIPPED" ELSE IF raw # <<>> THEN "SKIPPED" ELSE "EMPTY"

\* a provider's answer: the dict it returns, the cache after the call, whether
\* a request went to the service, whether an exception reaches the caller
Answer(out, cache, net, raises) ==
    [out |-> out, cache |-> cache, net |-> net, raises |-> raises]

\* a cache lookup placed before the API-key check
geocode_google_cache_first(script, raw0, cache, api_key, o) ==
    LET raw == Strip(raw0)
        key == Lower(raw)
        ck == cache_key("google", key)
        h == ExceptException(GoogleTry(o), "google")
    IN IF raw = <<>> \/ key \in BadLocations(script)
         THEN Answer([geo_empty("google") EXCEPT
                         !.owner_geocode_status = PreCheckStatus(script, raw)],
                     cache, FALSE, FALSE)
       ELSE IF ck \in DOMAIN cache
         THEN Answer(cache[ck], cache, FALSE, FALSE)
       ELSE IF api_key = ""
         THEN Answer([geo_empty("google") EXCEPT !.owner_geocode_status = "NO_API_KEY"],
                     cache, FALSE, FALSE)
       ELSE IF h.raises THEN Answer(h.out, cache, TRUE, TRUE)
       ELSE Answer(h.out, CachePut(cache, ck, h.out), TRUE, FALSE)

\* geocode_google(raw), with the request's outcome o
geocode_google(script, raw0, cache, api_key, o) ==
    LET raw == Strip(raw0)
        key == Lower(raw)
        ck == cache_key("google", key)
        h == ExceptException(GoogleTry(o), "google")
    IN IF raw = <<>> \/ key \in BadLocations(script)
         THEN Answer([geo_empty("google") EXCEPT
                         !.owner_geocode_status = PreCheckStatus(script, raw)],
                     cache, FALSE, FALSE)
       ELSE IF api_key = ""
         THEN Answer([geo_empty("google") EXCEPT !.owner_geocode_status = "NO_API_KEY"],
                     cache, FALSE, FALSE)
       ELSE IF ck \in DOMAIN cache
         THEN Answer(cache[ck], cache, FALSE, FALSE)
       ELSE IF h.raises THEN Answer(h.out, cache, TRUE, TRUE)
       ELSE Answer(h.out, CachePut(cache, ck, h.out), TRUE, FALSE)

\* geocode_nominatim(raw), with the outcome o of its try block
geocode_nominatim(script, raw0, cache, o) ==
    LET raw == Strip(raw0)
        key == Lower(raw)
        ck == cache_key("nominatim", key)
        h == ExceptException(NominatimTry(o), "nominatim")
        net == o.kind # "import_error"
    IN IF raw = <<>> \/ key \in BadLocations(script)
         THEN Answer([geo_empty("nominatim") EXCEPT
                         !.owner_geocode_status = PreCheckStatus(script, raw)],
                     cache, FALSE, FALSE)
       ELSE IF ck \in DOMAIN cache
         THEN Answer(cache[ck], cache, FALSE, FALSE)
       ELSE IF h.raises THEN Answer(h.out, cache, net, TRUE)
       ELSE Answer(h.out, CachePut(cache, ck, h.out), net, FALSE)

\* a default that ignores whether a key is configured
SelectedProvider_google(geo_provider, api_key) ==
    IF geo_provider # "" THEN geo_provider ELSE "google"

\* GEO_PROVIDER or ("google" if GOOGLE_MAPS_API_KEY else "nominatim")
SelectedProvider(geo_provider, api_key) ==
    IF geo_provider # "" THEN geo_provider
    ELSE IF api_key # "" THEN "google" ELSE "nominatim"

\* a dispatcher that treats an unknown provider as a failed lookup and caches it
geocode_and_normalize_caching(script, raw, cache, geo_provider, api_key, o) ==
    LET provider == SelectedProvider(geo_provider, api_key)
        out == [geo_no_match(provider) EXCEPT !.owner_geocode_status = "ERROR"]
    IN IF provider = "google" THEN geocode_google(script, raw, cache, api_key, o)
       ELSE IF provider = "nominatim" THEN geocode_nominatim(script, raw, cache, o)
       ELSE Answer(out, CachePut(cache, cache_key(provider, Lower(Strip(raw))), out),
                   FALSE, FALSE)

\* geocode_and_normalize(raw)
geocode_and_normalize(script, raw, cache, geo_provider, api_key, o) ==
    LET provider == SelectedProvider(geo_provider, api_key)
    IN IF provider = "google" THEN geocode_google(script, raw, cache, api_key, o)
       ELSE IF provider = "nominatim" THEN geocode_nominatim(script, raw, cache, o)
       ELSE Answer([geo_empty(provider) EXCEPT !.owner_geocode_status = "UNKNOWN_PROVIDER"],
                   cache, FALSE, FALSE)

\* the outcomes when the service answers although the network is said to be down
OfflineOutcomes_answering(provider) ==
    IF provider = "google" THEN GoogleOutcomes
    ELSE IF provider = "nominatim" THEN NominatimOutcomes
    ELSE {NoOutcome}

\* the outcomes without network: requests.get raises, the geopy call raises
\* (or geopy is not installed)
OfflineOutcomes(provider) ==
    IF provider = "google" THEN {o \in GoogleOutcomes : o.kind = "exc"}
    ELSE IF provider = "nominatim"
      THEN {o \in NominatimOutcomes : o.kind \in {"exc", "import_error"}}
    ELSE {NoOutcome}

\* the outcomes the service of the selected provider can have
OutcomesOf(provider) ==
    IF provider = "google" THEN GoogleOutcomes
    ELSE IF provider = "nominatim" THEN NominatimOutcomes
    ELSE {NoOutcome}

----------------------------------------------------------------------------
(* The cache file *)

EmptyMap == [x \in {} |-> x]

NoFile == [state |-> "missing", data |-> EmptyMap]

\* a process that starts with an empty cache whatever the file holds
load_geo_cache_never(file) == EmptyMap

\* a loader that answers a file it cannot use with a cache of one built-in entry
load_geo_cache_builtin(file) ==
    IF file.state = "dict" THEN file.data
    ELSE CachePut(EmptyMap, cache_key("google", <<"x">>), geo_no_match("google"))

\* load_geo_cache(): the value of _GEO_CACHE in a fresh process.  The file is
\* "missing", holds a JSON object ("dict"), holds JSON that is no object
\* ("notdict"), or cannot be parsed ("garbage").
load_geo_cache(file) == IF file.state = "dict" THEN file.data ELSE EmptyMap

\* how GEO_CACHE_FILE.write_text can end: "ok"; "fail": it raises before the
\* file is touched; "partial": it raises after the file was truncated
SaveOutcomes == {"ok", "fail", "partial"}

\* save_geo_cache(): the file afterwards (the exception is swallowed)
save_geo_cache(file, cache, sv) ==
    IF sv = "ok" THEN [state |-> "dict", data |-> cache]
    ELSE IF sv = "partial" THEN [state |-> "garbage", data |-> EmptyMap]
    ELSE file

----------------------------------------------------------------------------
(* postprocess_file *)

\* the process saves the cache every CheckpointEvery geocoded values
CheckpointEvery == 50

\* the characters in code-point order, for sorted()
CodePointOrder ==
    <<"\t", " ", "'", ",", "-", ".">> \o
    <<"0", "1", "2", "3", "4", "5", "6", "7", "8", "9", ";">> \o
    SubSeq(UpperChars, 1, 26) \o <<"_">> \o SubSeq(LowerChars, 1, 26) \o
    <<"|", "I^", "i^", "o^", "ZWSP", "ZWNJ", "ZWJ", "BOM">>

OrdTable ==
    [c \in Range(CodePointOrder) |->
        CHOOSE i \in DOMAIN CodePointOrder : CodePointOrder[i] = c]

\* a < b for str
RECURSIVE LessStr(_, _)
LessStr(a, b) ==
    IF b = <<>> THEN FALSE
    ELSE IF a = <<>> THEN TRUE
    ELSE IF Head(a) = Head(b) THEN LessStr(Tail(a), Tail(b))
    ELSE OrdTable[Head(a)] < OrdTable[Head(b)]

\* sorted(S) for a set of str
RECURSIVE Sorted(_)
Sorted(S) ==
    IF S = {} THEN <<>>
    ELSE LET m == CHOOSE x \in S : \A y \in S : x = y \/ LessStr(x, y)
         IN <<m>> \o Sorted(S \ {m})

\* the list comprehension of line 519 without set(): one entry per row
uniques_per_row(cl) ==
    LET nonempty == SelectSeq(cl, LAMBDA c : Strip(c.clean) # <<>>)
    IN [i \in 1..Len(nonempty) |-> nonempty[i].clean]

\* sorted(set([c for c in df["owner_location_clean"].tolist() if str(c).strip()]))
uniques_of(cl) ==
    Sorted({cl[i].clean : i \in {j \in DOMAIN cl : Strip(cl[j].clean) # <<>>}})

\* geo_map.get(loc)
MapPut(m, k, v) == [x \in DOMAIN m \cup {k} |-> IF x = k THEN v ELSE m[x]]

GEO_COLS == {"owner_location_norm", "owner_city", "owner_region", "owner_country",
             "owner_country_code", "owner_lat", "owner_lon",
             "owner_geocode_provider", "owner_geocode_status"}

\* a broadcast that gives every row the empty result
broadcast_row_blank(clean, gm, provider) == geo_empty(provider)

\* step 3 of postprocess_file for one row: the nine columns the row gets
broadcast_row(clean, gm, provider) ==
    LET loc == Strip(clean)
    IN IF loc # <<>> /\ loc \in DOMAIN gm THEN gm[loc] ELSE geo_empty(provider)

\* The record of a call of geocode_and_normalize(loc): its cache key, whether
\* the key was in _GEO_CACHE (and with what value, `hit`) and in the cache file
\* when the call began, the outcome of the try block if the call got there
\* (`okind`), the dict it returned, whether it sent a request, whether an
\* exception came out of it.
NoCall == [loc |-> <<>>, key |-> <<>>, cached |-> FALSE, hit |-> <<>>, ondisk |-> FALSE,
           okind |-> "unused", out |-> geo_empty(""), net |-> FALSE, raises |-> FALSE]

\* the raw owner_location values the input file can hold
RawInputs ==
    {<<>>,
     <<"P", "a", "r", "i", "s">>,
     <<" ", "p", "a", "r", "i", "s">>,
     <<"L", "y", "o", "n">>,
     <<"l", "y", "o", "n">>,
     <<"R", "e", "m", "o", "t", "e">>,
     <<" ", "R", "e", "m", "o", "t", "e", " ", "O", "n", "l", "y", " ">>}

\* the longest input file
MaxRows == 2

\* how many processes are started, one after the other, on an input file of
\* at most one row; a longer file is processed once
MaxRuns == 2

RunsOn(file_rows) == IF Len(file_rows) <= 1 THEN MaxRuns ELSE 1

RowLists == UNION {[1..k -> RawInputs] : k \in 0..MaxRows}

Providers == {"", "google", "nominatim", "bing"}

ApiKeys == {"", "KEY"}

\* A process starts: the environment is read, then postprocess_file runs up to
\* its geocoding loop: load_geo_cache, read_any, normalize_location_text for
\* every row, the sorted unique values.
StartRun ==
    /\ pc \in {"idle", "done", "crashed", "interrupted"}
    /\ runs < RunsOn(rows)
    /\ runs' = runs + 1
    /\ \E gp \in Providers, ak \in ApiKeys, readable \in BOOLEAN :
         LET cl == [i \in DOMAIN rows |-> normalize_location_text(rows[i])]
         IN /\ GEO_PROVIDER' = gp
            /\ GOOGLE_MAPS_API_KEY' = ak
            /\ GEO_CACHE' = load_geo_cache(disk)
            /\ IF readable
                 THEN /\ pc' = "loop"
                      /\ cleans' = cl
                      /\ uniques' = uniques_of(cl)
                 ELSE /\ pc' = "crashed"
                      /\ cleans' = <<>>
                      /\ uniques' = <<>>
    /\ idx' = 1
    /\ n' = 0
    /\ geo_map' = EmptyMap
    /\ out_rows' = <<>>
    /\ written' = "none"
    /\ ncalls' = 0
    /\ run_net' = EmptyMap
    /\ last_call' = NoCall
    /\ run_start' = load_geo_cache(disk)
    /\ prev_run' = IF network = "down" /\ (pc = "done" \/ out_rows # <<>>)
                     THEN [valid |-> TRUE, cache |-> run_start,
                           GEO_PROVIDER |-> GEO_PROVIDER,
                           GOOGLE_MAPS_API_KEY |-> GOOGLE_MAPS_API_KEY,
                           out_rows |-> out_rows]
                     ELSE prev_run
    /\ UNCHANGED <<rows, disk, netcount, network, fvars, avars, nvars, lvars>>

Count(m, k) == IF k \in DOMAIN m THEN m[k] ELSE 0

\* One iteration of `for loc in uniques`
GeocodeStep ==
    /\ pc = "loop"
    /\ idx <= Len(uniques)
    /\ LET loc == uniques[idx]
           provider == SelectedProvider(GEO_PROVIDER, GOOGLE_MAPS_API_KEY)
       IN IF Strip(Lower(loc)) \in BAD_LOCATIONS
            THEN /\ geo_map' = MapPut(geo_map, loc,
                                      [geo_empty(provider) EXCEPT
                                          !.owner_geocode_status = "SKIPPED"])
                 /\ idx' = idx + 1
                 /\ UNCHANGED <<pc, n, GEO_CACHE, disk, ncalls, netcount, run_net, last_call>>
            ELSE \E o \in IF network = "down" THEN OfflineOutcomes(provider)
                                               ELSE OutcomesOf(provider),
                    sv \in IF (n + 1) % CheckpointEvery = 0 THEN SaveOutcomes ELSE {"ok"} :
                 LET a == geocode_and_normalize("postprocess", loc, GEO_CACHE,
                                                GEO_PROVIDER, GOOGLE_MAPS_API_KEY, o)
                     ck == cache_key(provider, Lower(Strip(loc)))
                     tried == a.raises \/ a.cache # GEO_CACHE
                 IN /\ ncalls' = ncalls + 1
                    /\ last_call' = [loc |-> loc, key |-> ck,
                                     cached |-> ck \in DOMAIN GEO_CACHE,
                                     hit |-> IF ck \in DOMAIN GEO_CACHE
                                               THEN <<GEO_CACHE[ck]>> ELSE <<>>,
                                     ondisk |-> ck \in DOMAIN disk.data,
                                     okind |-> IF tried THEN o.kind ELSE "unused",
                                     out |-> a.out,
                                     net |-> a.net, raises |-> a.raises]
                    /\ netcount' = IF a.net THEN MapPut(netcount, ck, Count(netcount, ck) + 1)
                                            ELSE netcount
                    /\ run_net' = IF a.net THEN MapPut(run_net, ck, Count(run_net, ck) + 1)
                                           ELSE run_net
                    /\ GEO_CACHE' = a.cache
                    /\ IF a.raises
                         THEN /\ pc' = "crashed"
                              /\ UNCHANGED <<geo_map, n, idx, disk>>
                         ELSE /\ geo_map' = MapPut(geo_map, loc, a.out)
                              /\ n' = n + 1
                              /\ idx' = idx + 1
                              /\ pc' = pc
                              /\ disk' = IF (n + 1) % CheckpointEvery = 0
                                           THEN save_geo_cache(disk, a.cache, sv)
                                           ELSE disk
    /\ UNCHANGED <<runs, GEO_PROVIDER, GOOGLE_MAPS_API_KEY, rows, cleans, uniques,
                   out_rows, written, network, run_start, prev_run, fvars, avars, nvars, lvars>>

\* how write_any can end: the workbook is written, the CSV fallback is written,
\* or the fallback raises too
WriteOutcomes == {"xlsx", "csv", "raise"}

\* After the loop: the broadcast onto the rows, write_any, and the last
\* save_geo_cache.
Finish ==
    /\ pc = "loop"
    /\ idx > Len(uniques)
    /\ \E w \in WriteOutcomes, sv \in SaveOutcomes :
         LET provider == SelectedProvider(GEO_PROVIDER, GOOGLE_MAPS_API_KEY)
         IN /\ out_rows' = [i \in DOMAIN cleans |->
                               broadcast_row(cleans[i].clean, geo_map, provider)]
            /\ IF w = "raise"
                 THEN /\ pc' = "crashed"
                      /\ written' = "none"
                      /\ disk' = disk
                 ELSE /\ pc' = "done"
                      /\ written' = w
                      /\ disk' = save_geo_cache(disk, GEO_CACHE, sv)
    /\ UNCHANGED <<runs, GEO_PROVIDER, GOOGLE_MAPS_API_KEY, rows, cleans, uniques, idx,
                   geo_map, n, GEO_CACHE, ncalls, netcount, run_net, last_call, network,
                   run_start, prev_run, fvars, avars, nvars, lvars>>

\* The process is stopped from outside in the middle of the loop: what it
\* held in memory is gone, the cache file stays as it was.
Interrupt ==
    /\ pc = "loop"
    /\ pc' = "interrupted"
    /\ GEO_CACHE' = EmptyMap
    /\ geo_map' = EmptyMap
    /\ UNCHANGED <<runs, GEO_PROVIDER, GOOGLE_MAPS_API_KEY, rows, cleans, uniques, idx,
                   n, disk, out_rows, written, ncalls, netcount, run_net, last_call, network,
                   run_start, prev_run, fvars, avars, nvars, lvars>>

NoPrevRun == [valid |-> FALSE, cache |-> EmptyMap, GEO_PROVIDER |-> "",
              GOOGLE_MAPS_API_KEY |-> "", out_rows |-> <<>>]

\* a cache file left by earlier processes: "Paris, France" resolved by both
\* providers
ParisClean == normalize_location_text(<<"P", "a", "r", "i", "s">>).clean

PrepopulatedCache ==
    LET g == GoogleTry([kind |-> "json",
                        data |-> [status |-> <<"OK">>, results |-> <<GPlaceParis>>]]).out
        m == NominatimTry([kind |-> "found", loc |-> NLocParis]).out
    IN CachePut(CachePut(EmptyMap, cache_key("google", Lower(ParisClean)), g),
                cache_key("nominatim", Lower(ParisClean)), m)

PrepopulatedFile == [state |-> "dict", data |-> PrepopulatedCache]

InitPipe ==
    /\ pc = "idle"
    /\ runs = 0
    /\ GEO_PROVIDER = ""
    /\ GOOGLE_MAPS_API_KEY = ""
    /\ GEO_CACHE = EmptyMap
    /\ cleans = <<>>
    /\ uniques = <<>>
    /\ idx = 1
    /\ n = 0
    /\ geo_map = EmptyMap
    /\ out_rows = <<>>
    /\ written = "none"
    /\ ncalls = 0
    /\ netcount = EmptyMap
    /\ run_net = EmptyMap
    /\ last_call = NoCall
    /\ run_start = EmptyMap
    /\ prev_run = NoPrevRun

----------------------------------------------------------------------------
(* main of lisp.py: the geocoding of the owners.  It uses the variables of   *)
(* postprocess_file: rows holds the owner_location of the repositories seen, *)
(* out_rows the geocode fields of their rows, n the local `seen`.            *)

\* how many repositories search_repositories yields at most
MaxOwners == 2

\* the owner_location values owner_fields can give (it trims the profile's
\* text): those of RawInputs, and one with a trailing comma
OwnerLocations ==
    {Strip(r) : r \in RawInputs} \cup {<<"P", "a", "r", "i", "s", ",">>}

\* main up to its loop: the environment, load_geo_cache
LispStart ==
    /\ pc = "idle"
    /\ pc' = "lisp"
    /\ runs' = runs + 1
    /\ \E gp \in Providers, ak \in ApiKeys :
          /\ GEO_PROVIDER' = gp
          /\ GOOGLE_MAPS_API_KEY' = ak
    /\ GEO_CACHE' = load_geo_cache(disk)
    /\ run_start' = load_geo_cache(disk)
    /\ UNCHANGED <<disk, rows, cleans, uniques, idx, n, geo_map, out_rows, written, ncalls,
                   netcount, run_net, last_call, network, prev_run, fvars, avars, nvars, lvars>>

\* one iteration of `for repo in search_repositories(query)` for a repository
\* whose owner has the location raw
LispRepo ==
    /\ pc = "lisp"
    /\ n < MaxOwners
    /\ LET provider == SelectedProvider(GEO_PROVIDER, GOOGLE_MAPS_API_KEY)
       IN \E raw \in OwnerLocations, o \in OutcomesOf(provider),
             sv \in IF (n + 1) % CheckpointEvery = 0 THEN SaveOutcomes ELSE {"ok"} :
            LET a == geocode_and_normalize("lisp", raw, GEO_CACHE,
                                           GEO_PROVIDER, GOOGLE_MAPS_API_KEY, o)
                ck == cache_key(provider, Lower(Strip(raw)))
                tried == a.raises \/ a.cache # GEO_CACHE
            IN /\ ncalls' = ncalls + 1
               /\ last_call' = [loc |-> raw, key |-> ck,
                                cached |-> ck \in DOMAIN GEO_CACHE,
                                hit |-> IF ck \in DOMAIN GEO_CACHE
                                          THEN <<GEO_CACHE[ck]>> ELSE <<>>,
                                ondisk |-> ck \in DOMAIN disk.data,
                                okind |-> IF tried THEN o.kind ELSE "unused",
                                out |-> a.out,
                                net |-> a.net, raises |-> a.raises]
               /\ netcount' = IF a.net THEN MapPut(netcount, ck, Count(netcount, ck) + 1)
                                       ELSE netcount
               /\ run_net' = IF a.net THEN MapPut(run_net, ck, Count(run_net, ck) + 1)
                                      ELSE run_net
               /\ GEO_CACHE' = a.cache
               /\ IF a.raises
                    THEN /\ pc' = "crashed"
                         /\ UNCHANGED <<rows, out_rows, n, disk>>
                    ELSE /\ rows' = Append(rows, raw)
                         /\ out_rows' = Append(out_rows, a.out)
                         /\ n' = n + 1
                         /\ pc' = pc
                         /\ disk' = IF (n + 1) % CheckpointEvery = 0
                                      THEN save_geo_cache(disk, a.cache, sv)
                                      ELSE disk
    /\ UNCHANGED <<runs, GEO_PROVIDER, GOOGLE_MAPS_API_KEY, cleans, uniques, idx, geo_map,
                   written, network, run_start, prev_run, fvars, avars, nvars, lvars>>

\* after the loop: write_excel_with_fallback, then save_geo_cache
LispFinish ==
    /\ pc = "lisp"
    /\ \E w \in WriteOutcomes, sv \in SaveOutcomes :
         IF w = "raise"
           THEN /\ pc' = "crashed"
                /\ written' = "none"
                /\ disk' = disk
           ELSE /\ pc' = "done"
                /\ written' = w
                /\ disk' = save_geo_cache(disk, GEO_CACHE, sv)
    /\ UNCHANGED <<runs, GEO_PROVIDER, GOOGLE_MAPS_API_KEY, rows, cleans, uniques, idx,
                   geo_map, n, GEO_CACHE, out_rows, ncalls, netcount, run_net, last_call,
                   network, run_start, prev_run, fvars, avars, nvars, lvars>>

----------------------------------------------------------------------------
(* Resilient GET *)

\* a loop bound one too large
max_attempts_7 == 6 + 1

max_attempts == 6

\* base_sleep, in tenths of a second
HF_base_sleep == 16
GH_base_sleep == 20

\* upper end of random.uniform(0, x), in tenths of a second
HF_jitter == 8
GH_jitter == 10

\* the two ends of the seconds left until X-RateLimit-Reset that are modelled
MaxResetDelta == 30

base_sleep(v) == IF v = "hf" THEN HF_base_sleep ELSE GH_base_sleep

jitter_max(v) == IF v = "hf" THEN HF_jitter ELSE GH_jitter

RECURSIVE Pow2(_)
Pow2(e) == IF e <= 0 THEN 1 ELSE 2 * Pow2(e - 1)

\* a backoff that grows linearly instead of doubling
Backoff_linear(v, a) == base_sleep(v) * a

\* base_sleep * (2 ** (attempt - 1)), the part of the backoff that is not random
Backoff(v, a) == base_sleep(v) * Pow2(a - 1)

NoExc == [exc |-> "None", status |-> 0, msg |-> "", wraps |-> "None"]

\* What SESSION.get(url, timeout=TIMEOUT) can produce: a response with a status
\* and the two rate-limit headers, or an exception.
Statuses == {200, 400, 401, 403, 404, 429, 500, 502, 503, 504}

HttpResponses ==
    {[kind |-> "http", status |-> s, exc |-> "None",
      reset |-> "none", remaining |-> "none", delta |-> 0] : s \in Statuses}
    \cup
    {[kind |-> "http", status |-> s, exc |-> "None",
      reset |-> "num", remaining |-> rm, delta |-> d] :
        s \in {403, 429}, rm \in {"0", "none", "5"}, d \in {0 - 5, MaxResetDelta}}
    \cup
    {[kind |-> "http", status |-> s, exc |-> "None",
      reset |-> "bad", remaining |-> rm, delta |-> 0] :
        s \in {403, 429}, rm \in {"0", "none", "5"}}

ExcResponses ==
    {[kind |-> "exc", status |-> 0, exc |-> e,
      reset |-> "none", remaining |-> "none", delta |-> 0] :
        e \in {"ReadTimeout", "ConnectionError", "TooManyRedirects"}}

Responses == HttpResponses \cup ExcResponses

NoResp == [kind |-> "none", status |-> 0, exc |-> "None",
           reset |-> "none", remaining |-> "none", delta |-> 0]

\* the exceptions the except clause of get() catches
Caught == {"ReadTimeout", "ConnectionError", "HTTPError"}

\* resp.raise_for_status(): HTTPError for 4xx and 5xx, nothing otherwise
RaisesForStatus(r) == r.status >= 400

HTTPErrorOf(r) == [exc |-> "HTTPError", status |-> r.status, msg |-> "", wraps |-> "None"]

NoSleep == [after |-> 0, kind |-> "none", det |-> 0]

Max(a, b) == IF a >= b THEN a ELSE b

\* The body of the try block, up to the point where it leaves the try: what one
\* iteration does with the outcome r of SESSION.get.
\*   "return"  : return resp
\*   "continue": time.sleep(sleep) and continue, inside the try
\*   "throw"   : an exception e leaves the try block (the except clause decides)
HfTry(r, a) ==
    IF r.kind = "exc"
      THEN [do |-> "throw", e |-> [exc |-> r.exc, status |-> 0, msg |-> "", wraps |-> "None"]]
    ELSE IF r.status = 401
      THEN [do |-> "throw",
            e |-> [exc |-> "RuntimeError", status |-> 401,
                   msg |-> "Unauthorized (401)", wraps |-> "None"]]
    ELSE IF r.status = 404
      THEN [do |-> "throw", e |-> HTTPErrorOf(r)]
    ELSE IF r.status \in {429, 502, 503, 504}
      THEN [do |-> "continue", kind |-> "backoff", det |-> Backoff("hf", a)]
    ELSE IF RaisesForStatus(r)
      THEN [do |-> "throw", e |-> HTTPErrorOf(r)]
    ELSE [do |-> "return"]

GhTry(r, a) ==
    IF r.kind = "exc"
      THEN [do |-> "throw", e |-> [exc |-> r.exc, status |-> 0, msg |-> "", wraps |-> "None"]]
    ELSE IF r.status = 401
      THEN [do |-> "throw", e |-> HTTPErrorOf(r)]
    ELSE IF r.status \in {403, 429} /\ r.reset # "none" /\ r.remaining \in {"0", "none"}
      THEN IF r.reset = "bad"
             THEN [do |-> "throw",
                   e |-> [exc |-> "ValueError", status |-> 0, msg |-> "", wraps |-> "None"]]
             ELSE [do |-> "continue", kind |-> "ratelimit", det |-> (Max(0, r.delta) + 2) * 10]
    ELSE IF r.status \in {502, 503, 504}
      THEN [do |-> "continue", kind |-> "backoff", det |-> Backoff("github", a)]
    ELSE IF RaisesForStatus(r)
      THEN [do |-> "throw", e |-> HTTPErrorOf(r)]
    ELSE [do |-> "return"]

Try(v, r, a) == IF v = "hf" THEN HfTry(r, a) ELSE GhTry(r, a)

\* the error of the statement after the loop
GetFailed(le) ==
    [exc |-> "RuntimeError", status |-> 0, msg |-> "GET failed after retries", wraps |-> le.exc]

\* get(url) is called
GetCall ==
    /\ fpc = "idle"
    /\ fvariant' \in {"hf", "github"}
    /\ fpc' = "try"
    /\ attempt' = 1
    /\ nreq' = 0
    /\ resp' = NoResp
    /\ last_exc' = NoExc
    /\ slept' = NoSleep
    /\ nsleeps' = 0
    /\ jitter' = 0
    /\ raised' = NoExc
    /\ UNCHANGED <<pvars, avars, nvars, lvars>>

\* One iteration of the for loop: the request, the status checks, the sleep, and,
\* after the last iteration, the raise that follows the loop.
GetAttempt ==
    /\ fpc = "try"
    /\ attempt <= max_attempts
    /\ \E r \in Responses, j \in {0, jitter_max(fvariant)} :
         LET t == Try(fvariant, r, attempt)
             caught == t.do = "throw" /\ t.e.exc \in Caught
             le == IF caught THEN t.e ELSE last_exc
             sl == IF t.do = "continue"
                     THEN [after |-> attempt, kind |-> t.kind, det |-> t.det]
                   ELSE IF caught
                     THEN [after |-> attempt, kind |-> "backoff",
                           det |-> Backoff(fvariant, attempt)]
                   ELSE slept
             backoff == caught \/ (t.do = "continue" /\ t.kind = "backoff")
         IN
         /\ nreq' = nreq + 1
         /\ resp' = r
         /\ last_exc' = le
         /\ slept' = sl
         /\ nsleeps' = IF t.do = "continue" \/ caught THEN nsleeps + 1 ELSE nsleeps
         /\ jitter' = IF backoff THEN j ELSE 0
         /\ IF t.do = "return"
              THEN /\ fpc' = "returned"
                   /\ raised' = NoExc
                   /\ attempt' = attempt
            ELSE IF t.do = "throw" /\ ~caught
              THEN /\ fpc' = "raised"
                   /\ raised' = t.e
                   /\ attempt' = attempt
            ELSE IF attempt = max_attempts
              THEN /\ fpc' = "raised"
                   /\ raised' = GetFailed(le)
                   /\ attempt' = attempt
            ELSE /\ fpc' = "try"
                 /\ raised' = NoExc
                 /\ attempt' = attempt + 1
    /\ UNCHANGED <<fvariant, pvars, avars, nvars, lvars>>

\* the caller takes the response or the exception
GetEnd ==
    /\ fpc \in {"returned", "raised"}
    /\ fpc' = "idle"
    /\ attempt' = 1
    /\ nreq' = 0
    /\ resp' = NoResp
    /\ last_exc' = NoExc
    /\ slept' = NoSleep
    /\ nsleeps' = 0
    /\ jitter' = 0
    /\ raised' = NoExc
    /\ UNCHANGED <<fvariant, pvars, avars, nvars, lvars>>

----------------------------------------------------------------------------
(* hf_fetch_author *)

\* a profile the Hub sends for /api/users/<namespace> or /api/organizations/<namespace>
UserJson == [name |-> "Alice"]
OrgJson == [name |-> "Acme"]

\* the namespaces hf_fetch_author is called with
Namespaces == {"", "alice", "acme"}

\* What one _fetch_no_retry(url) meets:
\*   kind "exc"   SESSION.get raises
\*   kind "http"  a response with status_code `status`; `body` is what r.json()
\*                gives, unless `badjson`: then r.json() raises; for
\*                429/502/503/504 `viaget` is how the nested get(url) ends: it
\*                returns a response with that body, or it raises ("raise")
AuthorResponses ==
    {[kind |-> "exc", status |-> 0, body |-> <<>>, badjson |-> FALSE, viaget |-> "none"]}
    \cup
    {[kind |-> "http", status |-> 200, body |-> b, badjson |-> FALSE, viaget |-> "none"] :
        b \in {<<UserJson>>, <<OrgJson>>, <<>>}}
    \cup
    {[kind |-> "http", status |-> 200, body |-> <<>>, badjson |-> TRUE, viaget |-> "none"]}
    \cup
    {[kind |-> "http", status |-> st, body |-> <<>>, badjson |-> FALSE, viaget |-> "none"] :
        st \in {401, 404, 500}}
    \cup
    {[kind |-> "http", status |-> st, body |-> b, badjson |-> FALSE, viaget |-> g] :
        st \in {429}, b \in {<<UserJson>>, <<>>}, g \in {"return", "raise"}}

\* x or {}  for what r.json() gives (None is <<>>)
OrDict(body) == IF body = <<>> THEN EmptyMap ELSE body[1]

\* the try block of _fetch_no_retry: it returns a dict or an exception is raised
FetchTry(r) ==
    IF r.kind = "exc" THEN [do |-> "throw", data |-> EmptyMap]
    ELSE IF r.status = 404 THEN [do |-> "return", data |-> EmptyMap]
    ELSE IF r.status = 401 THEN [do |-> "throw", data |-> EmptyMap]
    ELSE IF r.status \in {429, 502, 503, 504}
      THEN IF r.viaget = "raise" \/ r.badjson
             THEN [do |-> "throw", data |-> EmptyMap]
             ELSE [do |-> "return", data |-> OrDict(r.body)]
    ELSE IF r.status >= 400 THEN [do |-> "throw", data |-> EmptyMap]
    ELSE IF r.badjson THEN [do |-> "throw", data |-> EmptyMap]
    ELSE [do |-> "return", data |-> OrDict(r.body)]

\* a _fetch_no_retry without `except Exception: return {}`
fetch_no_retry_raising(r) ==
    LET t == FetchTry(r)
    IN IF t.do = "throw" THEN [raises |-> TRUE, data |-> EmptyMap]
                         ELSE [raises |-> FALSE, data |-> t.data]

\* _fetch_no_retry(url): `except Exception: return {}` around the try block
fetch_no_retry(r) ==
    LET t == FetchTry(r)
    IN IF t.do = "throw" THEN [raises |-> FALSE, data |-> EmptyMap]
                         ELSE [raises |-> FALSE, data |-> t.data]

NoAuthorCall == [namespace |-> "", seen |-> <<>>, result |-> EmptyMap,
                 raises |-> FALSE, hit |-> FALSE]

\* hf_fetch_author(namespace), with the responses to the user URL and to the
\* organization URL
hf_fetch_author ==
    \E namespace \in Namespaces, r1 \in AuthorResponses, r2 \in AuthorResponses :
       IF namespace = ""
         THEN /\ author_call' = [NoAuthorCall EXCEPT !.namespace = namespace]
              /\ UNCHANGED <<AUTHOR_CACHE, AUTHOR_TYPE_CACHE>>
       ELSE IF namespace \in DOMAIN AUTHOR_CACHE
         THEN /\ author_call' = [namespace |-> namespace, seen |-> <<>>,
                                 result |-> AUTHOR_CACHE[namespace],
                                 raises |-> FALSE, hit |-> TRUE]
              /\ UNCHANGED <<AUTHOR_CACHE, AUTHOR_TYPE_CACHE>>
       ELSE
         LET u == fetch_no_retry(r1)
             o == fetch_no_retry(r2)
             isuser == u.data # EmptyMap
             data == IF isuser THEN u.data ELSE o.data
             ty == IF isuser THEN "user"
                   ELSE IF o.data # EmptyMap THEN "org" ELSE "unknown"
         IN IF u.raises \/ (~isuser /\ o.raises)
              THEN /\ author_call' = [namespace |-> namespace,
                                      seen |-> IF u.raises THEN <<r1.status>>
                                                           ELSE <<r1.status, r2.status>>,
                                      result |-> EmptyMap, raises |-> TRUE, hit |-> FALSE]
                   /\ UNCHANGED <<AUTHOR_CACHE, AUTHOR_TYPE_CACHE>>
              ELSE /\ author_call' = [namespace |-> namespace,
                                      seen |-> IF isuser THEN <<r1.status>>
                                                         ELSE <<r1.status, r2.status>>,
                                      result |-> data, raises |-> FALSE, hit |-> FALSE]
                   /\ AUTHOR_TYPE_CACHE' = MapPut(AUTHOR_TYPE_CACHE, namespace, ty)
                   /\ AUTHOR_CACHE' = MapPut(AUTHOR_CACHE, namespace, data)

HfFetchAuthor == hf_fetch_author /\ UNCHANGED <<pvars, fvars, nvars, lvars>>

InitAuthor ==
    /\ AUTHOR_CACHE = EmptyMap
    /\ AUTHOR_TYPE_CACHE = EmptyMap
    /\ author_call = NoAuthorCall

----------------------------------------------------------------------------
(* normalize_location_text on its own *)

\* the pieces the texts are put together from
NormTokens ==
    {<<"R", "e", "m", "o", "t", "e">>,
     <<" ", "o", "n", "l", "y">>,
     <<"f", "u", "l", "l", "y", " ">>,
     <<"E", "U">>,
     <<"P", "a", "r", "i", "s">>,
     <<"E", "a", "r", "t", "h">>,
     <<"s", "f">>,
     <<"ZWSP">>,
     <<" ">>,
     <<",">>}

\* how many pieces a text has at most
MaxTokens == 3

RECURSIVE TokenTexts(_)
TokenTexts(k) ==
    IF k = 0 THEN {<<>>}
    ELSE LET shorter == TokenTexts(k - 1)
         IN shorter \cup {t \o u : t \in shorter, u \in NormTokens}

\* the texts normalize_location_text is applied to
NormInputs ==
    TokenTexts(MaxTokens)
    \cup {<<" ", " ", "R", "e", "m", "o", "t", "e", " ", "O", "n", "l", "y", " ">>,
          <<"W", "o", "r", "l", "d", "w", "i", "d", "e">>,
          <<"R", "e", "m", "o", "t", "e", " ", "o", "n", "l", "y", " ", "o", "n", "l", "y">>,
          <<"C", "y", "p", "r", "u", "s", ",", " ", "E", "u", "r", "o", "p", "e", "a", "n",
            " ", "U", "n", "i", "o", "n">>}

NoNorm == [clean |-> <<>>, hint |-> "NONE"]

\* clean, hint = normalize_location_text(raw)
NormalizeOnce ==
    /\ norm_pc = "raw"
    /\ norm_pc' = "once"
    /\ norm_once' = normalize_location_text(norm_raw)
    /\ UNCHANGED <<norm_raw, norm_twice, pvars, fvars, avars, lvars>>

\* the cleaned text is normalized again
NormalizeTwice ==
    /\ norm_pc = "once"
    /\ norm_pc' = "twice"
    /\ norm_twice' = normalize_location_text(norm_once.clean)
    /\ UNCHANGED <<norm_raw, norm_once, pvars, fvars, avars, lvars>>

InitNorm ==
    /\ norm_pc = "idle"
    /\ norm_raw = <<>>
    /\ norm_once = NoNorm
    /\ norm_twice = NoNorm

----------------------------------------------------------------------------
(* The requests of geocode_nominatim in time.  Each call that misses the     *)
(* cache builds its own RateLimiter around geolocator.geocode and calls it   *)
(* once.  A RateLimiter remembers when it last let a request through         *)
(* (_last_call, None when new), waits until min_delay_seconds have passed    *)
(* since then, and after a failed request waits error_wait_seconds and       *)
(* tries again, max_retries times.                                           *)

\* RateLimiter(min_delay_seconds=1.2, max_retries=2, error_wait_seconds=2.0)
min_delay_seconds == 12

max_retries == 2

error_wait_seconds == 20

\* the model follows the clock up to this time
MaxClock == 40

\* the longest a request takes, and the longest the loop takes between the
\* return of one call and the next call
MaxLatency == 2

\* _last_call of a RateLimiter that has let no request through; no request
\* sent yet; fewer than two requests sent
Never == -1

\* geocode_nominatim gets past its cache lookup: a new RateLimiter
NominatimMiss ==
    /\ lpc = "idle"
    /\ clock < MaxClock
    /\ lpc' = "call"
    /\ limiter_last' = Never
    /\ tries' = 0
    /\ UNCHANGED <<clock, last_sent, gap, pvars, fvars, avars, nvars>>

\* One pass of the loop of RateLimiter.__call__: wait for the slot, send the
\* request; an answer ends the call, a failure is followed by
\* error_wait_seconds and another pass, or ends the call after max_retries.
\* The RateLimiter is a local of geocode_nominatim: it is gone when the call
\* ends.
LimiterAttempt ==
    /\ lpc = "call"
    /\ LET wait == IF limiter_last = Never THEN 0
                   ELSE Max(0, min_delay_seconds - (clock - limiter_last))
           sent == clock + wait
       IN /\ sent <= MaxClock
          /\ last_sent' = sent
          /\ gap' = IF last_sent = Never THEN Never ELSE sent - last_sent
          /\ \E latency \in 1..MaxLatency, ok \in BOOLEAN :
                IF ok \/ tries >= max_retries
                  THEN /\ clock' = sent + latency
                       /\ lpc' = "idle"
                       /\ limiter_last' = Never
                       /\ tries' = 0
                  ELSE /\ clock' = sent + latency + error_wait_seconds
                       /\ lpc' = "call"
                       /\ limiter_last' = sent
                       /\ tries' = tries + 1
    /\ UNCHANGED <<pvars, fvars, avars, nvars>>

\* the loop of postprocess_file between two calls of geocode_nominatim
LoopWork ==
    /\ lpc = "idle"
    /\ \E d \in 1..MaxLatency :
          /\ clock + d <= MaxClock
          /\ clock' = clock + d
    /\ UNCHANGED <<lpc, limiter_last, tries, last_sent, gap, pvars, fvars, avars, nvars>>

InitLimiter ==
    /\ lpc = "idle"
    /\ clock = 0
    /\ limiter_last = Never
    /\ tries = 0
    /\ last_sent = Never
    /\ gap = Never

----------------------------------------------------------------------------
(* Specifications *)

InitGet ==
    /\ fvariant = "hf"
    /\ fpc = "idle"
    /\ attempt = 1
    /\ nreq = 0
    /\ resp = NoResp
    /\ last_exc = NoExc
    /\ slept = NoSleep
    /\ nsleeps = 0
    /\ jitter = 0
    /\ raised = NoExc

\* postprocess_file over an input file of up to MaxRows rows, by RunsOn(rows)
\* processes one after the other
Init ==
    /\ InitPipe /\ disk = NoFile /\ network = "up" /\ rows \in RowLists
    /\ InitGet /\ InitAuthor /\ InitNorm /\ InitLimiter

\* postprocess_file without network, over a cache file that is absent or was
\* filled earlier
InitOffline ==
    /\ InitPipe /\ disk \in {NoFile, PrepopulatedFile} /\ network = "down"
    /\ rows \in RowLists
    /\ InitGet /\ InitAuthor /\ InitNorm /\ InitLimiter


Next == StartRun \/ GeocodeStep \/ Finish \/ Interrupt

Spec == Init /\ [][Next]_vars

SpecOffline == InitOffline /\ [][Next]_vars

\* postprocess_file is not started
IdlePipe == InitPipe /\ disk = NoFile /\ network = "up" /\ rows = <<>>

\* main of lisp.py
InitOfLisp == IdlePipe /\ InitGet /\ InitAuthor /\ InitNorm /\ InitLimiter

NextLisp == LispStart \/ LispRepo \/ LispFinish

SpecLisp == InitOfLisp /\ [][NextLisp]_vars

\* calls of get(url) alone: postprocess_file is not started
InitOfGet == InitGet /\ IdlePipe /\ InitAuthor /\ InitNorm /\ InitLimiter

\* calls of hf_fetch_author alone
InitOfAuthor == InitAuthor /\ InitGet /\ IdlePipe /\ InitNorm /\ InitLimiter

NextAuthor == HfFetchAuthor

SpecAuthor == InitOfAuthor /\ [][NextAuthor]_vars

\* normalize_location_text alone, on every text of NormInputs
InitOfNorm ==
    /\ InitAuthor /\ InitGet /\ IdlePipe /\ InitLimiter
    /\ norm_pc = "raw"
    /\ norm_raw \in NormInputs
    /\ norm_once = NoNorm
    /\ norm_twice = NoNorm

NextNorm == NormalizeOnce \/ NormalizeTwice

SpecNorm == InitOfNorm /\ [][NextNorm]_vars

NextGet == GetCall \/ GetAttempt \/ GetEnd

\* The loop is straight-line code in one thread: an iteration that can run does run.
SpecGet == InitOfGet /\ [][NextGet]_vars /\ WF_vars(GetAttempt)

----------------------------------------------------------------------------
(* Properties of postprocess_file and of the providers *)

\* K: the number of distinct non-empty cleaned values of the input rows
DistinctCleaned == {cleans[i].clean : i \in DOMAIN cleans} \ {<<>>}

\* C1: a process makes at most K calls of geocode_and_normalize, K being the
\* number of distinct non-empty cleaned values of its N rows, and a call whose
\* cache key is already in the cache sends no request.
C1_DedupeBound ==
    /\ ncalls <= Cardinality(DistinctCleaned)
    /\ last_call.cached => ~last_call.net

\* C1 witness: a finished process over two rows with the same cleaned value
\* that called geocode_and_normalize once
C1_Witness ==
    /\ pc = "done"
    /\ Len(cleans) = 2
    /\ cleans[1].clean = cleans[2].clean
    /\ Cardinality(DistinctCleaned) = 1
    /\ ncalls = 1

\* C2 as stated: over all the processes that ever used the cache file, no cache
\* key is sent to a geocoding service more than once.
C2_Original == \A k \in DOMAIN netcount : netcount[k] <= 1

\* C2 amended: one process sends a cache key to the service at most once; a
\* process in its loop holds every entry of the cache file in memory, so a key
\* that is in the file is never sent again.  (A key resolved by a process that
\* was interrupted, or whose write_any or cache write failed, is not in the
\* file and can be sent again by a later process.)
C2_OncePerProcess ==
    /\ \A k \in DOMAIN run_net : run_net[k] <= 1
    /\ last_call.net => (~last_call.cached /\ ~last_call.ondisk)
    /\ pc = "loop" =>
          \A k \in DOMAIN disk.data :
              k \in DOMAIN GEO_CACHE /\ GEO_CACHE[k] = disk.data[k]

\* C2 witness: the second process met a key that the first one had resolved
\* with one request and saved, and sent nothing
C2_Witness ==
    /\ runs = 2
    /\ last_call.ondisk
    /\ ~last_call.net
    /\ Count(netcount, last_call.key) = 1

\* C3 as stated: a call for a non-empty, non-sentinel value whose cache key is
\* in the cache returns the cached dict unchanged and sends no request, with
\* either provider and before any other check.
C3_Original ==
    last_call.cached => (last_call.out = last_call.hit[1] /\ ~last_call.net)

\* C3 amended: as C3 for geocode_nominatim, and for geocode_google when
\* GOOGLE_MAPS_API_KEY is set; geocode_google without a key returns status
\* NO_API_KEY before it looks at the cache, also for a cached key, and sends no
\* request.
C3_CacheHit ==
    /\ (last_call.cached /\ (last_call.key[1] = "nominatim" \/ GOOGLE_MAPS_API_KEY # ""))
          => (last_call.out = last_call.hit[1] /\ ~last_call.net)
    /\ (last_call.cached /\ last_call.key[1] = "google" /\ GOOGLE_MAPS_API_KEY = "")
          => /\ last_call.out = [geo_empty("google") EXCEPT
                                    !.owner_geocode_status = "NO_API_KEY"]
             /\ ~last_call.net

\* C3 witness: geocode_google, with a key, answered from the cache with a
\* result an earlier process had fetched
C3_Witness ==
    /\ last_call.cached
    /\ last_call.key[1] = "google"
    /\ GOOGLE_MAPS_API_KEY # ""
    /\ last_call.out.owner_geocode_status = "OK"
    /\ last_call.out = last_call.hit[1]
    /\ ~last_call.net

\* C4: no call of geocode_and_normalize lets an exception out, whatever the
\* script, the input and the outcome of the request (checked for the call the
\* loop made last and, in every state of the loop, for every call that could
\* be made there); a failed request or import gives status ERROR, a rejection
\* by the service OSM_403_BLOCKED; and a process never dies inside its
\* geocoding loop.
C4_NeverRaises ==
    /\ ~last_call.raises
    /\ pc = "crashed" => idx > Len(uniques)
    /\ last_call.okind \in {"exc", "badjson", "import_error"}
          => last_call.out.owner_geocode_status = "ERROR"
    /\ last_call.okind = "blocked"
          => last_call.out.owner_geocode_status = "OSM_403_BLOCKED"
    /\ pc = "loop" =>
          \A script \in {"postprocess", "lisp"}, raw \in RawInputs,
             o \in OutcomesOf(SelectedProvider(GEO_PROVIDER, GOOGLE_MAPS_API_KEY)) :
             LET a == geocode_and_normalize(script, raw, GEO_CACHE, GEO_PROVIDER,
                                            GOOGLE_MAPS_API_KEY, o)
             IN ~a.raises /\ a.out.owner_geocode_status # ""

\* C4 witness: a request failed, the call returned status ERROR, and the
\* process is still in its loop
C4_Witness ==
    /\ pc = "loop"
    /\ last_call.okind \in {"exc", "badjson", "import_error"}
    /\ last_call.out.owner_geocode_status = "ERROR"
    /\ ~last_call.raises

\* the two scripts that carry the providers
Scripts == {"postprocess", "lisp"}

\* the texts of the file at hand: its raw values and its cleaned values
LoopInputs == Range(rows) \cup Range(uniques)

\* C12: with GEO_PROVIDER unset, geocode_and_normalize is geocode_google when
\* GOOGLE_MAPS_API_KEY is set and geocode_nominatim when it is not; with
\* GEO_PROVIDER "google" or "nominatim" it is that provider.  Stated for the
\* call the loop made last (the provider named in its result) and, in the
\* loop, for every call on a raw or cleaned value of the file.
C12_ProviderSelection ==
    /\ last_call.key # <<>> =>
          /\ (GEO_PROVIDER = "" /\ GOOGLE_MAPS_API_KEY # "")
                => last_call.out.owner_geocode_provider = "google"
          /\ (GEO_PROVIDER = "" /\ GOOGLE_MAPS_API_KEY = "")
                => last_call.out.owner_geocode_provider = "nominatim"
          /\ GEO_PROVIDER \in {"google", "nominatim"}
                => last_call.out.owner_geocode_provider = GEO_PROVIDER
    /\ (pc = "loop" /\ (GEO_PROVIDER = "nominatim"
                          \/ (GEO_PROVIDER = "" /\ GOOGLE_MAPS_API_KEY = ""))) =>
          \A script \in Scripts, raw \in LoopInputs, o \in NominatimOutcomes :
             geocode_and_normalize(script, raw, GEO_CACHE, GEO_PROVIDER,
                                   GOOGLE_MAPS_API_KEY, o)
               = geocode_nominatim(script, raw, GEO_CACHE, o)
    /\ (pc = "loop" /\ (GEO_PROVIDER = "google"
                          \/ (GEO_PROVIDER = "" /\ GOOGLE_MAPS_API_KEY # ""))) =>
          \A script \in Scripts, raw \in LoopInputs, o \in GoogleOutcomes :
             geocode_and_normalize(script, raw, GEO_CACHE, GEO_PROVIDER,
                                   GOOGLE_MAPS_API_KEY, o)
               = geocode_google(script, raw, GEO_CACHE, GOOGLE_MAPS_API_KEY, o)

\* C12 witness: no key, no GEO_PROVIDER, and the call went to Nominatim
C12_Witness ==
    /\ GEO_PROVIDER = ""
    /\ GOOGLE_MAPS_API_KEY = ""
    /\ last_call.key # <<>>
    /\ last_call.net
    /\ last_call.out.owner_geocode_provider = "nominatim"

\* C13: with GEO_PROVIDER naming neither google nor nominatim, every call of
\* geocode_and_normalize returns status UNKNOWN_PROVIDER, sends no request and
\* leaves _GEO_CACHE as it was.
C13_UnknownProvider ==
    GEO_PROVIDER \notin {"", "google", "nominatim"} =>
       /\ run_net = EmptyMap
       /\ last_call.key # <<>> =>
             /\ last_call.out = [geo_empty(GEO_PROVIDER) EXCEPT
                                    !.owner_geocode_status = "UNKNOWN_PROVIDER"]
             /\ ~last_call.net
       /\ pc = "loop" =>
             /\ GEO_CACHE = load_geo_cache(disk)
             /\ \A script \in Scripts, raw \in RawInputs :
                   LET a == geocode_and_normalize(script, raw, GEO_CACHE, GEO_PROVIDER,
                                                  GOOGLE_MAPS_API_KEY, NoOutcome)
                   IN /\ a.out.owner_geocode_status = "UNKNOWN_PROVIDER"
                      /\ ~a.net
                      /\ a.cache = GEO_CACHE

\* C13 witness: a process with an unknown provider and a non-empty cache made
\* a call and got UNKNOWN_PROVIDER
C13_Witness ==
    /\ GEO_PROVIDER = "bing"
    /\ pc = "loop"
    /\ GEO_CACHE # EmptyMap
    /\ last_call.key # <<>>
    /\ last_call.out.owner_geocode_status = "UNKNOWN_PROVIDER"

\* the broadcast of postprocess_file has run
Broadcasted == pc = "done" \/ out_rows # <<>>

\* C14: once the broadcast has run, every unique cleaned value has an entry in
\* geo_map; there is one output row per input row; a row with a non-empty
\* cleaned text carries the nine fields of the result computed for that text
\* (SKIPPED for a sentinel, the dict the last call returned for the text of the
\* last call); two rows with the same cleaned text carry the same nine fields;
\* a row with an empty cleaned text carries the empty result with status EMPTY.
C14_Broadcast ==
    Broadcasted =>
       /\ Len(out_rows) = Len(rows)
       /\ \A u \in Range(uniques) : u \in DOMAIN geo_map
       /\ \A i \in DOMAIN out_rows :
             /\ DOMAIN out_rows[i] = GEO_COLS
             /\ IF cleans[i].clean = <<>>
                  THEN out_rows[i] =
                          [geo_empty(SelectedProvider(GEO_PROVIDER, GOOGLE_MAPS_API_KEY))
                              EXCEPT !.owner_geocode_status = "EMPTY"]
                  ELSE /\ cleans[i].clean \in DOMAIN geo_map
                       /\ out_rows[i] = geo_map[cleans[i].clean]
                       /\ cleans[i].clean = last_call.loc => out_rows[i] = last_call.out
                       /\ Lower(cleans[i].clean) \in BAD_LOCATIONS
                             => out_rows[i].owner_geocode_status = "SKIPPED"
                       /\ Lower(cleans[i].clean) \notin BAD_LOCATIONS
                             => out_rows[i].owner_geocode_status \notin {"EMPTY", "SKIPPED"}
       /\ \A i, j \in DOMAIN out_rows :
             cleans[i].clean = cleans[j].clean => out_rows[i] = out_rows[j]

\* C14 witness: a written file of two rows with the same cleaned text, both
\* carrying the OK result of the one call
C14_Witness ==
    /\ pc = "done"
    /\ Len(rows) = 2
    /\ rows[1] # rows[2]
    /\ cleans[1].clean = cleans[2].clean
    /\ out_rows[1].owner_geocode_status = "OK"
    /\ out_rows[2] = out_rows[1]
    /\ ncalls = 1

\* C17: two processes over the same rows, without network, with the same
\* configuration and the same cache loaded at their start, give every row the
\* same nine fields.
C17_CacheDeterminism ==
    (/\ network = "down"
     /\ Broadcasted
     /\ prev_run.valid
     /\ prev_run.cache = run_start
     /\ prev_run.GEO_PROVIDER = GEO_PROVIDER
     /\ prev_run.GOOGLE_MAPS_API_KEY = GOOGLE_MAPS_API_KEY)
    => out_rows = prev_run.out_rows

\* C17 witness: the second of two such processes, over a cache that held the
\* row's value, has given the row the cached OK result as the first one did
C17_Witness ==
    /\ network = "down"
    /\ runs = 2
    /\ pc = "done"
    /\ prev_run.valid
    /\ prev_run.cache = run_start
    /\ run_start = PrepopulatedCache
    /\ prev_run.GEO_PROVIDER = GEO_PROVIDER
    /\ prev_run.GOOGLE_MAPS_API_KEY = GOOGLE_MAPS_API_KEY
    /\ Len(out_rows) = 1
    /\ out_rows[1].owner_geocode_status = "OK"
    /\ out_rows = prev_run.out_rows

\* C18: geocode_google and geocode_nominatim, of either script, answer a text
\* that is empty after trimming with the empty result and status EMPTY, a
\* non-empty sentinel with the empty result and status SKIPPED, and send no
\* request for either.  Stated for the call main of lisp.py made last.
C18_PreCheck ==
    (last_call.key # <<>> /\ last_call.key[1] \in {"google", "nominatim"}) =>
       LET raw == Strip(last_call.loc)
       IN /\ raw = <<>> =>
                /\ last_call.out = [geo_empty(last_call.key[1]) EXCEPT
                                       !.owner_geocode_status = "EMPTY"]
                /\ ~last_call.net
          /\ (raw # <<>> /\ Lower(raw) \in GH_BAD_LOCATIONS) =>
                /\ last_call.out = [geo_empty(last_call.key[1]) EXCEPT
                                       !.owner_geocode_status = "SKIPPED"]
                /\ ~last_call.net

\* C19: the last call changed _GEO_CACHE only if it sent a request; no entry
\* of _GEO_CACHE has a status that a pre-check gives (EMPTY, SKIPPED,
\* NO_API_KEY, UNKNOWN_PROVIDER); no entry is stored for a sentinel.
C19_CacheWriteDiscipline ==
    /\ last_call.okind # "unused" => last_call.net
    /\ \A k \in DOMAIN GEO_CACHE :
          /\ GEO_CACHE[k].owner_geocode_status
                \notin {"EMPTY", "SKIPPED", "NO_API_KEY", "UNKNOWN_PROVIDER"}
          /\ k[2] \notin BAD_LOCATIONS

\* the results a process holds: the dict of the last call, the values of
\* geo_map and of _GEO_CACHE, the fields of the output rows
ResultsHeld ==
    {last_call.out}
    \cup {geo_map[k] : k \in DOMAIN geo_map}
    \cup {GEO_CACHE[k] : k \in DOMAIN GEO_CACHE}
    \cup {out_rows[i] : i \in DOMAIN out_rows}

\* C20: a result whose owner_geocode_status is not OK has empty owner_lat and
\* owner_lon.
C20_NoCoordinatesUnlessOK ==
    \A r \in ResultsHeld :
       r.owner_geocode_status # "OK" => (r.owner_lat = "" /\ r.owner_lon = "")

\* C20 witness: the cache holds an OK entry with coordinates and an entry of a
\* failed lookup without
C20_Witness ==
    /\ \E k \in DOMAIN GEO_CACHE :
          /\ GEO_CACHE[k].owner_geocode_status = "OK"
          /\ GEO_CACHE[k].owner_lat # ""
    /\ \E k \in DOMAIN GEO_CACHE :
          /\ GEO_CACHE[k].owner_geocode_status \in {"ERROR", "NO_MATCH", "ZERO_RESULTS"}
          /\ GEO_CACHE[k].owner_lat = ""
          /\ GEO_CACHE[k].owner_lon = ""

----------------------------------------------------------------------------
(* Properties of the resilient GET *)

\* the outcome of the request of the last iteration
GotStatus(codes) == resp.kind = "http" /\ resp.status \in codes

GotException(names) == resp.kind = "exc" /\ resp.exc \in names

\* base * 2^(a-1) written out, in tenths of a second: 1.6 s (Hugging Face) and
\* 2.0 s (GitHub) doubled on every attempt
Doubling(v, a) ==
    IF v = "hf" THEN <<16, 32, 64, 128, 256, 512>>[a]
                ELSE <<20, 40, 80, 160, 320, 640>>[a]

\* the GitHub get's rate-limit branch: a 403 or 429 that carries X-RateLimit-Reset
\* and whose X-RateLimit-Remaining is "0" or absent
RateLimited ==
    /\ fvariant = "github"
    /\ GotStatus({403, 429})
    /\ resp.reset # "none"
    /\ resp.remaining \in {"0", "none"}

\* C5: a call of get(url) issues at most 6 requests, and a call that is in its
\* loop always comes to an end, by returning a response or by raising.
C5_GetBoundedAndTerminates ==
    /\ [](nreq <= 6)
    /\ ((fpc = "try") ~> (fpc \in {"returned", "raised"}))

\* C5 witness: a call that used all six requests and ended by raising
C5_Witness == fpc = "raised" /\ nreq = 6 /\ raised.msg = "GET failed after retries"

\* C6: an attempt that receives 401 ends the call at once: get has raised, and no
\* sleep followed that attempt (so no further request can follow either).
C6_Unauthorized_Immediate ==
    GotStatus({401}) => (fpc = "raised" /\ slept.after # nreq)

\* C7: an attempt that receives 404 ends the call at once: exactly one request
\* for this status, get has raised, and no sleep followed that attempt.
C7_NotFound_Immediate ==
    GotStatus({404}) => (fpc = "raised" /\ slept.after # nreq)

\* C8: a non-2xx status other than 401, 404, 429, 502, 503, 504 makes get raise a
\* generic HTTP failure without retrying.
C8_OtherStatus_NotRetried ==
    GotStatus({400, 500}) =>
        (fpc = "raised" /\ raised.exc = "HTTPError" /\ slept.after # nreq)

\* the outcomes the specification lists as retried with the doubling backoff
Retryable == GotStatus({429, 502, 503, 504}) \/ GotException({"ReadTimeout", "ConnectionError"})

\* after attempt a (= nreq) the call slept base * 2^(a-1) and is about to issue
\* attempt a + 1
RetriedWithDoubling ==
    /\ fpc = "try"
    /\ attempt = nreq + 1
    /\ slept = [after |-> nreq, kind |-> "backoff", det |-> Doubling(fvariant, nreq)]

\* C9 as stated: every attempt a < 6 that ends in 429/502/503/504 or in a timeout or
\* connection error is followed by a sleep of base * 2^(a-1) (plus jitter) and
\* by attempt a + 1; a 2xx response is returned.
C9_Original ==
    /\ (Retryable /\ nreq < 6) => RetriedWithDoubling
    /\ GotStatus({200}) => (fpc = "returned" /\ raised = NoExc)

\* C9 amended: as C9, except for the GitHub get's rate-limit branch, where the
\* sleep is max(0, reset - now) + 2 seconds without doubling (and a reset header
\* that is no integer makes get raise).
C9_Backoff ==
    /\ (Retryable /\ nreq < 6 /\ ~RateLimited) => RetriedWithDoubling
    /\ (Retryable /\ nreq < 6 /\ RateLimited /\ resp.reset = "num") =>
          /\ fpc = "try"
          /\ attempt = nreq + 1
          /\ slept = [after |-> nreq, kind |-> "ratelimit",
                      det |-> (IF resp.delta > 0 THEN resp.delta ELSE 0) * 10 + 20]
    /\ GotStatus({200}) => (fpc = "returned" /\ raised = NoExc)

\* C9 witness: the third attempt ended in a retryable outcome, the call slept
\* four times the base and is in its fourth attempt
C9_Witness ==
    /\ Retryable /\ ~RateLimited
    /\ nreq = 3 /\ attempt = 4 /\ fpc = "try"
    /\ slept.det = 4 * base_sleep(fvariant)

\* C10: when get raises "GET failed after retries", the error it wraps is the
\* failure of the last attempt, and it is never absent.
C10_WrapsLastFailure ==
    (fpc = "raised" /\ raised.msg = "GET failed after retries") =>
        /\ raised.wraps # "None"
        /\ resp.kind = "exc" => raised.wraps = resp.exc
        /\ resp.kind = "http" => (raised.wraps = "HTTPError" /\ last_exc.status = resp.status)

----------------------------------------------------------------------------
(* Properties of hf_fetch_author *)

\* C11: a call of hf_fetch_author in which a profile lookup was answered with
\* HTTP 401 ends by raising, and records nothing for the namespace: no empty
\* result, no author type "unknown".
C11_UnauthorizedAborts ==
    (\E i \in DOMAIN author_call.seen : author_call.seen[i] = 401) =>
        /\ author_call.raises
        /\ author_call.namespace \notin DOMAIN AUTHOR_CACHE
        /\ author_call.namespace \notin DOMAIN AUTHOR_TYPE_CACHE

----------------------------------------------------------------------------
(* Properties of normalize_location_text *)

\* C15: for a text whose result has hint CLEANED or MAPPED, normalizing the
\* cleaned text again gives the same cleaned text.
C15_Idempotent ==
    (norm_pc = "twice" /\ norm_once.hint \in {"CLEANED", "MAPPED"}) =>
        norm_twice.clean = norm_once.clean

\* the text after the three replacements, the collapse of whitespace and the
\* strip of punctuation
AfterCleaning(raw) ==
    Strip(StripChars(Sub("spaces", <<" ">>, CleanReplacements(Strip(raw)), 1),
                     {" ", ",", ";", "|", "-"}))

RemoteOnlyPadded ==
    <<" ", " ", "R", "e", "m", "o", "t", "e", " ", "O", "n", "l", "y", " ">>

\* C16: an empty or whitespace-only text gives ("", EMPTY); a text whose
\* trimmed lower-case form is a sentinel gives (that form, SKIP); a text that
\* is a sentinel only after cleaning gives (the lower-cased cleaned text,
\* SKIP), "  Remote Only " giving ("remote", SKIP); a sentinel is never looked
\* up in the alias table.
C16_Sentinels ==
    norm_pc \in {"once", "twice"} =>
       LET trimmed == Strip(norm_raw)
           low == Lower(trimmed)
           cleaned == AfterCleaning(norm_raw)
       IN /\ trimmed = <<>> => norm_once = [clean |-> <<>>, hint |-> "EMPTY"]
          /\ (trimmed # <<>> /\ low \in BAD_LOCATIONS)
                => norm_once = [clean |-> low, hint |-> "SKIP"]
          /\ (trimmed # <<>> /\ low \notin BAD_LOCATIONS
                /\ cleaned # <<>> /\ Lower(cleaned) \in BAD_LOCATIONS)
                => norm_once = [clean |-> Lower(cleaned), hint |-> "SKIP"]
          /\ norm_raw = RemoteOnlyPadded
                => norm_once = [clean |-> <<"r", "e", "m", "o", "t", "e">>, hint |-> "SKIP"]
          /\ norm_once.hint = "MAPPED"
                => (low \notin BAD_LOCATIONS /\ Lower(cleaned) \notin BAD_LOCATIONS)
          /\ norm_once.hint = "SKIP" => norm_once.clean \in BAD_LOCATIONS

\* C16 witness: "  Remote Only " was normalized to ("remote", SKIP)
C16_Witness ==
    /\ norm_pc = "once"
    /\ norm_raw = RemoteOnlyPadded
    /\ norm_once = [clean |-> <<"r", "e", "m", "o", "t", "e">>, hint |-> "SKIP"]

----------------------------------------------------------------------------
(* load_geo_cache over every kind of cache file *)

\* what GEO_CACHE_FILE can hold when a process starts: nothing (no file), a
\* JSON object, JSON that is no object (a list, a number), text that is no JSON
CacheFiles ==
    {NoFile,
     PrepopulatedFile,
     [state |-> "notdict", data |-> EmptyMap],
     [state |-> "garbage", data |-> EmptyMap]}

\* the input files of at most one row
ShortRowLists == {r \in RowLists : Len(r) <= 1}

\* postprocess_file, by processes one after the other, over a cache file of
\* any kind
InitOfLoad ==
    /\ InitPipe /\ disk \in CacheFiles /\ network = "up" /\ rows \in ShortRowLists
    /\ InitGet /\ InitAuthor /\ InitNorm /\ InitLimiter

SpecLoad == InitOfLoad /\ [][Next]_vars

\* the process has loaded the cache and has not run an iteration of its loop:
\* the cache file is as load_geo_cache found it
JustLoaded == pc = "loop" /\ idx = 1 /\ ncalls = 0

\* C21: a process that has just loaded the cache holds an empty cache when the
\* file is missing, is no JSON, or holds JSON that is no mapping, and holds the
\* file's mapping when there is one; in each case it goes on to its loop.
C21_LoadTolerant ==
    JustLoaded =>
       /\ disk.state \in {"missing", "garbage", "notdict"} => GEO_CACHE = EmptyMap
       /\ disk.state = "dict" => GEO_CACHE = disk.data

\* C21 witness: a process went through its loop after it found a cache file
\* that was no JSON, starting from an empty cache, and resolved a value
C21_Witness ==
    /\ run_start = EmptyMap
    /\ disk.state = "garbage"
    /\ pc = "loop"
    /\ ncalls = 1
    /\ last_call.net
    /\ ~last_call.cached

----------------------------------------------------------------------------
(* The geocoding loop of postprocess_file over a long input file *)

\* the decimal digits, for numbered place names
DigitSeq == <<"0", "1", "2", "3", "4", "5", "6", "7", "8", "9">>

\* the i-th place name of a long input file: "t001", "t002", ...
Town(i) ==
    <<"t", DigitSeq[((i \div 100) % 10) + 1], DigitSeq[((i \div 10) % 10) + 1],
      DigitSeq[(i % 10) + 1]>>

\* the most place names a long input file holds: two checkpoints and one more
MaxTowns == 2 * CheckpointEvery + 1

\* the long input files: k numbered places, then a sentinel, an empty cell
\* and the first place again
LongRowLists ==
    {[i \in 1..(k + 3) |->
         IF i <= k THEN Town(i)
         ELSE IF i = k + 1 THEN <<"R", "e", "m", "o", "t", "e">>
         ELSE IF i = k + 2 THEN <<>>
         ELSE Town(1)] :
       k \in {CheckpointEvery - 1, CheckpointEvery + 1, MaxTowns}}

\* a cache file left by an earlier process that found nothing for the first
\* two places
TownsFile ==
    [state |-> "dict",
     data |-> CachePut(CachePut(EmptyMap, cache_key("google", Town(1)),
                                geo_no_match("google")),
                       cache_key("google", Town(2)), geo_no_match("google"))]

\* A process with GEO_PROVIDER=google and an API key, without network, that
\* has done postprocess_file up to its loop over a long input file: the cache
\* is loaded, the rows are normalized, the unique values are sorted.
InitOfCheckpoint ==
    /\ rows \in LongRowLists
    /\ disk \in {NoFile, TownsFile}
    /\ network = "down"
    /\ pc = "loop"
    /\ runs = 1
    /\ GEO_PROVIDER = "google"
    /\ GOOGLE_MAPS_API_KEY = "KEY"
    /\ GEO_CACHE = load_geo_cache(disk)
    /\ run_start = load_geo_cache(disk)
    /\ cleans = [i \in DOMAIN rows |-> normalize_location_text(rows[i])]
    /\ uniques = uniques_of([i \in DOMAIN rows |-> normalize_location_text(rows[i])])
    /\ idx = 1
    /\ n = 0
    /\ geo_map = EmptyMap
    /\ out_rows = <<>>
    /\ written = "none"
    /\ ncalls = 0
    /\ netcount = EmptyMap
    /\ run_net = EmptyMap
    /\ last_call = NoCall
    /\ prev_run = NoPrevRun
    /\ InitGet /\ InitAuthor /\ InitNorm /\ InitLimiter

\* the loop, the end of postprocess_file, an interruption from outside
NextCheckpoint == GeocodeStep \/ Finish \/ Interrupt

SpecCheckpoint == InitOfCheckpoint /\ [][NextCheckpoint]_vars

\* the positions of uniques the loop has passed with a call of
\* geocode_and_normalize (a sentinel is passed without a call)
Geocoded == {i \in 1..(idx - 1) : Strip(Lower(uniques[i])) \notin BAD_LOCATIONS}

\* the positions geocoded since the last checkpoint: the last n % 50 of them
SinceCheckpoint ==
    {i \in Geocoded : Cardinality({j \in Geocoded : j >= i}) <= n % CheckpointEvery}

\* the cache keys that are in _GEO_CACHE and not, with the same value, in the
\* cache file as a later process would load it
Unsaved ==
    {k \in DOMAIN GEO_CACHE :
        ~(k \in DOMAIN load_geo_cache(disk) /\ load_geo_cache(disk)[k] = GEO_CACHE[k])}

\* C22: at every point of the loop the cache entries that are in memory and
\* not in the cache file belong to values geocoded since the last checkpoint,
\* and there are at most 50 of them.
C22_CheckpointLossBound ==
    pc = "loop" =>
       /\ Unsaved \subseteq
             {cache_key(SelectedProvider(GEO_PROVIDER, GOOGLE_MAPS_API_KEY),
                        Lower(Strip(uniques[i]))) : i \in SinceCheckpoint}
       /\ Cardinality(Unsaved) <= CheckpointEvery

\* the loop over uniques has run to its end and the process has ended, by a
\* return of postprocess_file or by an exception after the loop
AfterGeocoding == pc \in {"done", "crashed"} /\ idx > Len(uniques)

\* C23: once the loop over the unique values is over and the process has
\* ended, every entry of _GEO_CACHE is in the cache file, also when write_any
\* failed.
C23_FinalPersist == AfterGeocoding => Unsaved = {}

\* the sum of the values of a map of counters
RECURSIVE SumOf(_)
SumOf(m) ==
    IF DOMAIN m = {} THEN 0
    ELSE LET k == CHOOSE x \in DOMAIN m : TRUE
         IN m[k] + SumOf([x \in DOMAIN m \ {k} |-> m[x]])

\* the distinct non-empty normalized texts of the records seen so far
NormalizedSeen ==
    {normalize_location_text(rows[i]).clean : i \in DOMAIN rows} \ {<<>>}

\* C24: records whose locations normalize to the same text share one cache
\* key: a process adds at most one cache entry and sends at most one request
\* per distinct normalized text of its records.
C24_KeyedByNormalized ==
    /\ Cardinality(DOMAIN GEO_CACHE \ DOMAIN run_start) <= Cardinality(NormalizedSeen)
    /\ SumOf(run_net) <= Cardinality(NormalizedSeen)

\* C25: a request of geocode_google goes through get(url), so a lookup that
\* ends because the request failed (timeout, connection error) has sent the
\* request max_attempts times.  Stated for the last call of a process.
C25_EveryRequestThroughGet ==
    (/\ last_call.key # <<>>
     /\ last_call.key[1] = "google"
     /\ last_call.net
     /\ last_call.okind = "exc")
    => Count(run_net, last_call.key) = max_attempts

\* the bodies of the Geocoding API that are a JSON object with a status
StatusBodies == {o \in GoogleOutcomes : o.kind = "json" /\ o.data.status # <<>>}

\* the values of the loop a call of geocode_google would send to the service:
\* not empty, no sentinel, not in the cache
Uncached ==
    {raw \in LoopInputs :
        /\ Strip(raw) # <<>>
        /\ Lower(Strip(raw)) \notin BAD_LOCATIONS
        /\ cache_key("google", Lower(Strip(raw))) \notin DOMAIN GEO_CACHE}

\* C26 as stated: geocode_google, for a body whose status is not empty and
\* not OK, returns the empty result with that status and stores it under the
\* cache key; for status OK and no results it returns and stores NO_MATCH.
C26_Original ==
    pc = "loop" =>
       \A raw \in Uncached, o \in StatusBodies :
          LET a == geocode_google("postprocess", raw, GEO_CACHE, "KEY", o)
              ck == cache_key("google", Lower(Strip(raw)))
              st == o.data.status[1]
          IN /\ st # "OK" =>
                   /\ a.out = [geo_empty("google") EXCEPT !.owner_geocode_status = st]
                   /\ ck \in DOMAIN a.cache /\ a.cache[ck] = a.out
             /\ (st = "OK" /\ o.data.results = <<>>) =>
                   /\ a.out = geo_no_match("google")
                   /\ ck \in DOMAIN a.cache /\ a.cache[ck] = a.out

\* C26 amended: the status is compared and stored in upper case.
C26_NonOkStatus ==
    pc = "loop" =>
       \A raw \in Uncached, o \in StatusBodies :
          LET a == geocode_google("postprocess", raw, GEO_CACHE, "KEY", o)
              ck == cache_key("google", Lower(Strip(raw)))
              st == Upper(o.data.status[1])
          IN /\ st # "OK" =>
                   /\ a.out = [geo_empty("google") EXCEPT !.owner_geocode_status = st]
                   /\ ck \in DOMAIN a.cache /\ a.cache[ck] = a.out
             /\ (st = "OK" /\ o.data.results = <<>>) =>
                   /\ a.out = geo_no_match("google")
                   /\ ck \in DOMAIN a.cache /\ a.cache[ck] = a.out
             /\ a.net /\ ~a.raises

\* C26 witness: the last call got a body with a status other than OK and the
\* cache holds its result, ZERO_RESULTS, under the call's key
C26_Witness ==
    /\ last_call.key # <<>>
    /\ last_call.key[1] = "google"
    /\ last_call.okind = "json"
    /\ last_call.net
    /\ last_call.out = [geo_empty("google") EXCEPT
                           !.owner_geocode_status = "ZERO_RESULTS"]
    /\ last_call.key \in DOMAIN GEO_CACHE
    /\ GEO_CACHE[last_call.key] = last_call.out

\* the last call ended in the except clause of its provider: the request, the
\* parsing of the body or the import of geopy raised
FailedInTry ==
    /\ pc \in {"loop", "done", "crashed"}
    /\ last_call.okind \in {"exc", "badjson", "import_error"}

\* the result of a failed lookup
ErrorResult(provider) == [geo_empty(provider) EXCEPT !.owner_geocode_status = "ERROR"]

\* the last call met a cache entry with status ERROR under its key
MetCachedError ==
    /\ last_call.cached
    /\ last_call.hit[1].owner_geocode_status = "ERROR"

\* C27 as stated: a call whose try block raised returns ERROR and stores it in
\* the cache; a call that finds ERROR under its cache key, in the same process
\* or in a later one that loaded the file, returns ERROR and sends no request.
C27_Original ==
    /\ FailedInTry =>
          /\ last_call.out = ErrorResult(last_call.key[1])
          /\ last_call.key \in DOMAIN GEO_CACHE
          /\ GEO_CACHE[last_call.key] = last_call.out
    /\ MetCachedError =>
          /\ last_call.out.owner_geocode_status = "ERROR"
          /\ ~last_call.net

\* C27 amended: as stated for geocode_nominatim, and for geocode_google while
\* GOOGLE_MAPS_API_KEY is set; geocode_google without a key answers the key of
\* a cached ERROR with NO_API_KEY, and sends no request.
C27_StickyError ==
    /\ FailedInTry =>
          /\ last_call.out = ErrorResult(last_call.key[1])
          /\ last_call.key \in DOMAIN GEO_CACHE
          /\ GEO_CACHE[last_call.key] = last_call.out
    /\ (MetCachedError /\ (last_call.key[1] = "nominatim" \/ GOOGLE_MAPS_API_KEY # "")) =>
          /\ last_call.out = last_call.hit[1]
          /\ ~last_call.net
    /\ (MetCachedError /\ last_call.key[1] = "google" /\ GOOGLE_MAPS_API_KEY = "") =>
          /\ last_call.out.owner_geocode_status = "NO_API_KEY"
          /\ ~last_call.net

\* C27 witness: a second process loaded the ERROR an earlier process had got
\* with one request and saved, and answered the key with it, sending nothing
C27_Witness ==
    /\ runs = 2
    /\ MetCachedError
    /\ last_call.ondisk
    /\ last_call.out = ErrorResult(last_call.key[1])
    /\ ~last_call.net
    /\ Count(netcount, last_call.key) = 1

----------------------------------------------------------------------------
(* Properties of the requests of geocode_nominatim *)

\* calls of geocode_nominatim that miss the cache, one after the other
InitOfPacing == InitLimiter /\ IdlePipe /\ InitGet /\ InitAuthor /\ InitNorm

NextPacing == NominatimMiss \/ LimiterAttempt \/ LoopWork

SpecPacing == InitOfPacing /\ [][NextPacing]_vars

\* C28: two consecutive requests to the community service are at least
\* min_delay_seconds apart, also when they come from two calls of
\* geocode_nominatim.
C28_Pacing == gap = Never \/ gap >= min_delay_seconds

----------------------------------------------------------------------------
(* Properties of the alias table *)

\* normalize_location_text on every key of _LOCATION_MAP, then on the text
\* the table gave
InitOfAlias ==
    /\ InitAuthor /\ InitGet /\ IdlePipe /\ InitLimiter
    /\ norm_pc = "raw"
    /\ norm_raw \in LOCATION_MAP_KEYS
    /\ norm_once = NoNorm
    /\ norm_twice = NoNorm

SpecAlias == InitOfAlias /\ [][NextNorm]_vars

\* the key was answered from the table and the answer was normalized again
MappedTwice == norm_pc = "twice" /\ norm_once.hint = "MAPPED"

\* C29 as stated: the value of an entry, in lower case, is not another key of
\* the table, and the table's answer is not mapped again.
C29_Original ==
    MappedTwice =>
       /\ Lower(LOCATION_MAP(norm_raw)) \notin LOCATION_MAP_KEYS \ {norm_raw}
       /\ norm_twice.hint # "MAPPED"

\* C29 amended: the value of an entry, in lower case, is no key of the table
\* or is a key with the same value; normalizing the table's answer again
\* gives the same text, by the table or by the cleaning rules.
C29_AliasFixedPoint ==
    MappedTwice =>
       LET v == LOCATION_MAP(norm_raw)
       IN /\ norm_once.clean = v
          /\ Lower(v) \in LOCATION_MAP_KEYS => LOCATION_MAP(Lower(v)) = v
          /\ norm_twice.clean = v
          /\ norm_twice.hint \in {"MAPPED", "CLEANED"}
          /\ norm_twice.hint = "MAPPED" <=> Lower(v) \in LOCATION_MAP_KEYS

\* C29 witness: "de" gives "Germany", and "Germany" is mapped again, by the
\* entry "germany", to itself
C29_Witness ==
    /\ MappedTwice
    /\ norm_raw = <<"d", "e">>
    /\ norm_once.clean = <<"G", "e", "r", "m", "a", "n", "y">>
    /\ norm_twice = norm_once

----------------------------------------------------------------------------
(* Properties of _GEO_CACHE during a process *)

\* a step of a running process: an iteration of its loop, or its end
StepOfProcess ==
    /\ pc \in {"loop", "lisp"}
    /\ pc' \in {"loop", "lisp", "done", "crashed"}

\* C30: a step of a running process removes no entry of _GEO_CACHE and changes
\* no value in it; when it adds an entry, the key is the key of the call it
\* made, and that key was absent.
C30_AppendOnly ==
    [][StepOfProcess =>
          /\ \A k \in DOMAIN GEO_CACHE :
                k \in DOMAIN GEO_CACHE' /\ GEO_CACHE'[k] = GEO_CACHE[k]
          /\ GEO_CACHE' # GEO_CACHE =>
                /\ DOMAIN GEO_CACHE' = DOMAIN GEO_CACHE \cup {last_call'.key}
                /\ last_call'.key \notin DOMAIN GEO_CACHE
                /\ ~last_call'.cached]_vars

\* C30 witness: a process holds the entry it loaded from the cache file,
\* unchanged, next to an entry it has added
C30_Witness ==
    /\ pc \in {"loop", "done"}
    /\ \E k \in DOMAIN run_start :
          k \in DOMAIN GEO_CACHE /\ GEO_CACHE[k] = run_start[k]
    /\ \E k \in DOMAIN GEO_CACHE : k \notin DOMAIN run_start

----------------------------------------------------------------------------
(* postprocess_file over files that hold sentinels *)

\* the records "Paris", "Remote", "", "sf", "Paris"
ExampleRows ==
    <<<<"P", "a", "r", "i", "s">>, <<"R", "e", "m", "o", "t", "e">>, <<>>,
      <<"s", "f">>, <<"P", "a", "r", "i", "s">>>>

\* the files with sentinels: the example; sentinels only, in several
\* spellings; one sentinel between two places; and a file whose first record
\* is "Remote, E<U+200B>U", a sentinel with a suffix that a zero-width space
\* hides from the first replacement
SentinelRowLists ==
    {ExampleRows,
     <<<<" ", "E", "U", " ">>, <<"e", "a", "r", "t", "h">>, <<>>,
       <<"R", "e", "m", "o", "t", "e">>>>,
     <<<<"L", "y", "o", "n">>, <<"A", "P", "A", "C">>, <<"s", "f">>>>,
     <<<<"R", "e", "m", "o", "t", "e", ",", " ", "E", "ZWSP", "U">>, <<"s", "f">>, <<>>,
       <<"L", "y", "o", "n">>>>}

InitOfSentinel ==
    /\ InitPipe /\ disk = NoFile /\ network = "up" /\ rows \in SentinelRowLists
    /\ InitGet /\ InitAuthor /\ InitNorm /\ InitLimiter

SpecSentinel == InitOfSentinel /\ [][Next]_vars

\* the positions of uniques the loop has passed without a call: the sentinels
Bypassed == {i \in 1..(idx - 1) : Strip(Lower(uniques[i])) \in BAD_LOCATIONS}

\* C31: a unique value of the sentinel set gets the empty result with status
\* SKIPPED and no call of geocode_and_normalize, and it is not counted by the
\* checkpoint counter n: the calls and the counter are those of the other
\* values.  The records "Paris", "Remote", "", "sf", "Paris" end with exactly
\* two calls, for "Paris, France" and "San Francisco, CA, USA".
C31_SentinelBypass ==
    pc \in {"loop", "done", "crashed"} /\ uniques # <<>> =>
       /\ \A i \in Bypassed :
             /\ uniques[i] \in DOMAIN geo_map
             /\ geo_map[uniques[i]] =
                   [geo_empty(SelectedProvider(GEO_PROVIDER, GOOGLE_MAPS_API_KEY))
                       EXCEPT !.owner_geocode_status = "SKIPPED"]
       /\ n = Cardinality(Geocoded)
       /\ ncalls = IF last_call.raises THEN n + 1 ELSE n
       /\ ncalls > 0 => Strip(Lower(last_call.loc)) \notin BAD_LOCATIONS
       /\ rows = ExampleRows /\ pc = "done" =>
             /\ ncalls = 2
             /\ {uniques[i] : i \in Geocoded} =
                   {<<"P", "a", "r", "i", "s", ",", " ", "F", "r", "a", "n", "c", "e">>,
                    LOCATION_MAP(<<"s", "f">>)}
             /\ Cardinality(Bypassed) = 1

\* the example file is done: two requests went out, and "remote" was skipped
C31_Witness ==
    /\ rows = ExampleRows
    /\ pc = "done"
    /\ ncalls = 2
    /\ n = 2
    /\ SumOf(run_net) = 2
    /\ <<"r", "e", "m", "o", "t", "e">> \in DOMAIN geo_map
    /\ geo_map[<<"r", "e", "m", "o", "t", "e">>].owner_geocode_status = "SKIPPED"

----------------------------------------------------------------------------
(* The cleaned text and its hint *)

\* the results of normalize_location_text the process has so far
NormResults ==
    IF norm_pc = "once" THEN {norm_once}
    ELSE IF norm_pc = "twice" THEN {norm_once, norm_twice}
    ELSE {}

\* step 2 and step 3 of postprocess_file for one row whose cleaned text is
\* `clean`: the value is among the uniques under the text itself, and once
\* the loop has given it the result `geo` the broadcast finds that result
LookupFinds(r, geo) ==
    /\ uniques_of(<<r>>) = <<r.clean>>
    /\ broadcast_row(r.clean, MapPut(EmptyMap, uniques_of(<<r>>)[1], geo), "google") = geo

\* C32: the cleaned text is empty exactly when the hint is EMPTY; with the
\* hints SKIP, MAPPED and CLEANED it is not empty and has no whitespace at
\* either end, so it is one of the uniques and the broadcast's lookup by the
\* stripped text finds its entry of geo_map.
C32_CleanNonEmpty ==
    \A r \in NormResults :
       /\ r.hint \in {"EMPTY", "SKIP", "MAPPED", "CLEANED"}
       /\ (r.clean = <<>>) <=> (r.hint = "EMPTY")
       /\ Strip(r.clean) = r.clean
       /\ r.hint # "EMPTY" =>
             /\ r.clean[1] \notin Whitespace
             /\ r.clean[Len(r.clean)] \notin Whitespace
             /\ LookupFinds(r, geo_no_match("google"))

\* a text with whitespace at both ends was cleaned to something else, not empty
C32_Witness ==
    /\ norm_pc = "once"
    /\ norm_raw # <<>>
    /\ norm_raw[1] \in Whitespace
    /\ norm_raw[Len(norm_raw)] \in Whitespace
    /\ norm_once.hint = "CLEANED"
    /\ norm_once.clean # <<>>
    /\ norm_once.clean # Strip(norm_raw)

----------------------------------------------------------------------------
(* The hint of a record and the status it ends with *)

\* the status column of record i after postprocess_file
StatusOf(i) == out_rows[i].owner_geocode_status

\* C33: after postprocess_file a record with hint EMPTY has status EMPTY, a
\* record with hint SKIP has status SKIPPED, and a record with hint MAPPED or
\* CLEANED has a status that is neither EMPTY nor SKIPPED.
C33_HintStatus ==
    pc = "done" =>
       \A i \in DOMAIN cleans :
          /\ cleans[i].hint = "EMPTY" => StatusOf(i) = "EMPTY"
          /\ cleans[i].hint = "SKIP" => StatusOf(i) = "SKIPPED"
          /\ cleans[i].hint \in {"MAPPED", "CLEANED"} =>
                StatusOf(i) \notin {"EMPTY", "SKIPPED"}

\* the same for the hints EMPTY, SKIP and MAPPED only
HintStatusWithoutCleaned ==
    pc = "done" =>
       \A i \in DOMAIN cleans :
          /\ cleans[i].hint = "EMPTY" => StatusOf(i) = "EMPTY"
          /\ cleans[i].hint = "SKIP" => StatusOf(i) = "SKIPPED"
          /\ cleans[i].hint = "MAPPED" => StatusOf(i) \notin {"EMPTY", "SKIPPED"}

\* a record with hint CLEANED ended with status SKIPPED
CleanedSkipped ==
    /\ pc = "done"
    /\ \E i \in DOMAIN cleans :
          /\ cleans[i].hint = "CLEANED"
          /\ StatusOf(i) = "SKIPPED"

----------------------------------------------------------------------------
(* The memo of hf_fetch_author *)

\* every namespace of _AUTHOR_CACHE has a type, and the type is user or org
\* only with data
AuthorTyped ==
    /\ "" \notin DOMAIN AUTHOR_CACHE
    /\ DOMAIN AUTHOR_CACHE = DOMAIN AUTHOR_TYPE_CACHE
    /\ \A ns \in DOMAIN AUTHOR_CACHE :
          /\ AUTHOR_TYPE_CACHE[ns] \in {"user", "org", "unknown"}
          /\ AUTHOR_TYPE_CACHE[ns] \in {"user", "org"} => AUTHOR_CACHE[ns] # EmptyMap
    /\ author_call.hit => /\ author_call.seen = <<>>
                          /\ author_call.namespace \in DOMAIN AUTHOR_CACHE
                          /\ author_call.result = AUTHOR_CACHE[author_call.namespace]

\* one call of hf_fetch_author with a namespace that is not empty: the first
\* one for the namespace sends requests and stores what it returns, a later
\* one sends nothing and returns what is stored; no entry is ever changed
AuthorStep ==
    LET ns == author_call'.namespace
    IN /\ \A k \in DOMAIN AUTHOR_CACHE :
             /\ k \in DOMAIN AUTHOR_CACHE'
             /\ AUTHOR_CACHE'[k] = AUTHOR_CACHE[k]
             /\ AUTHOR_TYPE_CACHE'[k] = AUTHOR_TYPE_CACHE[k]
       /\ ns # "" =>
             IF ns \in DOMAIN AUTHOR_CACHE
               THEN /\ author_call'.hit
                    /\ author_call'.seen = <<>>
                    /\ author_call'.result = AUTHOR_CACHE[ns]
                    /\ AUTHOR_CACHE' = AUTHOR_CACHE
               ELSE /\ ~author_call'.hit
                    /\ author_call'.seen # <<>>
                    /\ ~author_call'.raises
                    /\ ns \in DOMAIN AUTHOR_CACHE'
                    /\ AUTHOR_CACHE'[ns] = author_call'.result

\* C34: hf_fetch_author sends requests for a namespace only in the first call
\* of the process for it and stores the outcome (user data, organization
\* data, or the empty result of a failed lookup); every later call returns
\* the stored value without a request; every namespace of _AUTHOR_CACHE has a
\* type in _AUTHOR_TYPE_CACHE, which is user or org only if the stored data
\* is not empty.
C34_AuthorMemo == [](AuthorTyped) /\ [][AuthorStep]_vars

\* a later call returned the stored empty result of a failed lookup, while
\* another namespace is stored with data
C34_Witness ==
    /\ author_call.hit
    /\ author_call.result = EmptyMap
    /\ AUTHOR_TYPE_CACHE[author_call.namespace] = "unknown"
    /\ \E ns \in DOMAIN AUTHOR_CACHE : AUTHOR_TYPE_CACHE[ns] \in {"user", "org"}

====
